---- MODULE Spec2Model ----
(***************************************************************************)
(* Verification model of vibecoding_helper: the dual-model orchestrator     *)
(* (providers/orchestrator.py), the self-healing workflow                   *)
(* (core/workflow.py), the verifier pipeline (verifiers/base.py,            *)
(* verifiers/factory.py) and the phase gates of the CLI commands            *)
(* (cli/commands/*.py, core/state.py).                                      *)
(*                                                                         *)
(* Text is a sequence of tokens.  "F" is a triple-backtick fence, "w" a     *)
(* word character, "s" a blank, "n" a newline; any other token is a piece   *)
(* of literal text.  An Optional[T] is the empty sequence (None) or a       *)
(* one-element sequence.                                                    *)
(***************************************************************************)
EXTENDS Integers, Sequences, FiniteSets, TLC

VARIABLES
    o_pc,               \* orchestrator: position of the running phase call
    o_args,             \* orchestrator: arguments of the running phase call
    o_loc,              \* orchestrator: local variables of the running call
    o_calls,            \* provider.generate calls issued by the running call
    collaboration_log,  \* DualModelOrchestrator._collaboration_log
    o_result,           \* Optional[OrchestratorResult] returned by the call
    o_ncalls,           \* number of phase calls started on this instance
    returned_logs,      \* collaboration_log of every result returned so far
    h_pc,               \* heal(): position
    h_in,               \* heal(): max_attempts and verify_results
    attempt,            \* heal(): loop variable
    result,             \* heal(): the HealingResult
    file,               \* Optional content of the file being healed
    h_trace,            \* heal(): observable events, in order
    v_pc,               \* verify_all(): position
    v_args,             \* verify_all(): fix, skip_tests
    v_results,          \* verify_all(): results list
    v_invoked,          \* verify_all(): checks invoked, in order
    state,              \* Optional persisted VibeState (.vibe/state.json)
    cmd_log,            \* CLI commands run so far and what their gates decided
    vh_pc,              \* verify_and_heal(): position
    vh_in,              \* verify_and_heal(): what is_supported answers, the context
    vh_results,         \* verify_and_heal(): Optional results of the syntax check
    vh_lint,            \* verify_and_heal(): Optional lint_results
    vh_ret,             \* verify_and_heal(): Optional returned pair
    _VERIFIER_MAP,      \* factory: extension -> verifier class
    _verifier_cache,    \* factory: extension -> cached verifier instance
    f_made,             \* factory: number of verifier instances constructed
    f_log,              \* factory: the calls made so far and what they gave
    tasks,              \* TodoList.tasks
    t_log,              \* TodoList: the calls made so far and what they gave
    rt_in,              \* code extraction: Optional input of the round trip
    rt_out,             \* code extraction: Optional outcome of the round trip
    heap,               \* message lists: the list objects, heap[1] the caller's
    m_log,              \* message lists: the phase calls made on the caller's list
    l_pc,               \* process-all loop: position
    l_task,             \* process-all loop: Optional index of the task in hand
    l_iter,             \* process-all loop: iterations started
    l_pending           \* process-all loop: PENDING tasks when the loop was entered

vars == <<o_pc, o_args, o_loc, o_calls, collaboration_log, o_result, o_ncalls,
          returned_logs,
          h_pc, h_in, attempt, result, file, h_trace,
          v_pc, v_args, v_results, v_invoked, state, cmd_log,
          vh_pc, vh_in, vh_results, vh_lint, vh_ret,
          _VERIFIER_MAP, _verifier_cache, f_made, f_log,
          tasks, t_log, rt_in, rt_out,
          heap, m_log, l_pc, l_task, l_iter, l_pending>>

orch_vars == <<o_pc, o_args, o_loc, o_calls, collaboration_log, o_result, o_ncalls,
               returned_logs>>
heal_vars == <<h_pc, h_in, attempt, result, file, h_trace>>
verify_vars == <<v_pc, v_args, v_results, v_invoked>>
phase_vars == <<state, cmd_log>>
vh_vars == <<vh_pc, vh_in, vh_results, vh_lint, vh_ret>>
factory_vars == <<_VERIFIER_MAP, _verifier_cache, f_made, f_log>>
todo_vars == <<tasks, t_log>>
text_vars == <<rt_in, rt_out>>
list_vars == <<heap, m_log>>
loop_vars == <<l_pc, l_task, l_iter, l_pending>>
aux_vars == <<list_vars, loop_vars>>
lib_vars == <<factory_vars, todo_vars, text_vars, aux_vars>>

----------------------------------------------------------------------------
(* Bounds *)

MaxAttempts == 2        \* largest max_attempts given to SelfHealingWorkflow
MaxRetries == 3         \* largest max_retries given to execute_phase3_code
MaxIssues == 11         \* longest issue list a check reports
MaxCommands == 3        \* CLI commands run in one behaviour
MaxLookups == 3         \* factory calls made in one behaviour
MaxStateCalls == 6      \* calls on one VibeState in one behaviour
MaxTasks == 3           \* longest TodoList
MaxText == 3            \* longest text put inside a fence

----------------------------------------------------------------------------
(* Text *)

None == << >>
Some(x) == <<x>>
IsSet(opt) == Len(opt) = 1

Min(a, b) == IF a < b THEN a ELSE b

\* \w: a word character "w", or the word `python` "p"
IsWord(c) == c \in {"w", "p"}
IsSpace(c) == c \in {"s", "n"}

\* str.strip()
strip(s) ==
    IF \A k \in 1..Len(s) : IsSpace(s[k]) THEN << >>
    ELSE LET a == CHOOSE i \in 1..Len(s) :
                      ~IsSpace(s[i]) /\ \A k \in 1..(i - 1) : IsSpace(s[k])
             b == CHOOSE j \in 1..Len(s) :
                      ~IsSpace(s[j]) /\ \A k \in (j + 1)..Len(s) : IsSpace(s[k])
         IN SubSeq(s, a, b)

\* end (exclusive) of the maximal run of word characters starting at i
WordEnd(s, i) ==
    CHOOSE j \in i..(Len(s) + 1) :
        /\ \A k \in i..(j - 1) : IsWord(s[k])
        /\ (j = Len(s) + 1 \/ ~IsWord(s[j]))

\* end (exclusive) of the maximal run of whitespace starting at i
SpaceEnd(s, i) ==
    CHOOSE j \in i..(Len(s) + 1) :
        /\ \A k \in i..(j - 1) : IsSpace(s[k])
        /\ (j = Len(s) + 1 \/ ~IsSpace(s[j]))

\* the pattern ```(?:\w+)?\s*\n(.*?)``` matches with its opening fence at i
FenceMatchesAt(s, i) ==
    /\ s[i] = "F"
    /\ LET a == WordEnd(s, i + 1)
           b == SpaceEnd(s, a)
       IN /\ \E p \in a..(b - 1) : s[p] = "n"
          /\ \E q \in b..Len(s) : s[q] = "F"

\* group(1) of the match whose opening fence is at i
FenceGroup(s, i) ==
    LET a == WordEnd(s, i + 1)
        b == SpaceEnd(s, a)
        p == CHOOSE x \in a..(b - 1) :
                 s[x] = "n" /\ \A y \in (x + 1)..(b - 1) : s[y] # "n"
        q == CHOOSE x \in b..Len(s) :
                 s[x] = "F" /\ \A y \in b..(x - 1) : s[y] # "F"
    IN SubSeq(s, p + 1, q - 1)

\* _clean_code_output that takes the whole response
_clean_code_output_whole(content) == strip(content)

\* SelfHealingWorkflow._clean_code_output
_clean_code_output(content) ==
    IF \E i \in 1..Len(content) : FenceMatchesAt(content, i)
    THEN LET i == CHOOSE x \in 1..Len(content) :
                      /\ FenceMatchesAt(content, x)
                      /\ \A y \in 1..(x - 1) : ~FenceMatchesAt(content, y)
         IN strip(FenceGroup(content, i))
    ELSE strip(content)

\* end (exclusive) of the optional literal `python` at i
PythonEnd(s, i) == IF i <= Len(s) /\ s[i] = "p" THEN i + 1 ELSE i

\* the pattern ```(?:python)?\s*\n(.*?)``` matches with its opening fence at i
CliFenceMatchesAt(s, i) ==
    /\ s[i] = "F"
    /\ LET a == PythonEnd(s, i + 1)
           b == SpaceEnd(s, a)
       IN /\ \E p \in a..(b - 1) : s[p] = "n"
          /\ \E q \in b..Len(s) : s[q] = "F"

\* group(1) of that match
CliFenceGroup(s, i) ==
    LET a == PythonEnd(s, i + 1)
        b == SpaceEnd(s, a)
        p == CHOOSE x \in a..(b - 1) :
                 s[x] = "n" /\ \A y \in (x + 1)..(b - 1) : s[y] # "n"
        q == CHOOSE x \in b..Len(s) :
                 s[x] = "F" /\ \A y \in b..(x - 1) : s[y] # "F"
    IN SubSeq(s, p + 1, q - 1)

\* _clean_code_output of cli/commands/code.py
cli_clean_code_output(content) ==
    IF \E i \in 1..Len(content) : CliFenceMatchesAt(content, i)
    THEN LET i == CHOOSE x \in 1..Len(content) :
                      /\ CliFenceMatchesAt(content, x)
                      /\ \A y \in 1..(x - 1) : ~CliFenceMatchesAt(content, y)
         IN strip(CliFenceGroup(content, i))
    ELSE strip(content)

----------------------------------------------------------------------------
(* Providers *)

MainName == "anthropic"
KnowledgeName == "google"

\* contents a provider's generate() can return
Bodies == { << >>, <<"s">>, <<"w">>, <<"F", "n", "w", "n", "F">> }

\* str(e) of the ProviderError a provider's generate() can raise
ErrMsgs == { <<"e1">>, <<"e2">> }

\* what one generate() call does: return a Response or raise ProviderError
ProviderOutcomes ==
    [kind : {"ok"}, content : Bodies] \cup [kind : {"ProviderError"}, content : ErrMsgs]

Message(role, content) == [role |-> role, content |-> content]

Response(provider, content) == [content |-> content, model |-> provider]

OrchestratorResult(content, main_response, knowledge_response, model_used, log) ==
    [content |-> content,
     main_response |-> main_response,
     knowledge_response |-> knowledge_response,
     model_used |-> model_used,
     collaboration_log |-> log]

\* a generate() call is issued: it is pending until the provider answers
Issue(calls, provider, messages) ==
    Append(calls, [provider |-> provider, messages |-> messages, outcome |-> "pending",
                   content |-> << >>])

\* the pending generate() call is answered: with the content of the Response
\* it returns or with the message of the ProviderError it raises
Answer(calls, outcome) ==
    [calls EXCEPT ![Len(calls)].outcome = outcome.kind,
                  ![Len(calls)].content = outcome.content]

\* a value is truthy in the sense of Python's `if x:` for Optional[str]
Truthy(opt) == IsSet(opt) /\ opt[1] # << >>

NoArgs ==
    [phase |-> "none", messages |-> << >>, external_context |-> None,
     libraries |-> None, full_codebase |-> << >>, max_retries |-> 0,
     mode |-> "none", query |-> << >>, context |-> None]

NoLoc ==
    [attempt |-> 0, last_error |-> None, context_summary |-> << >>,
     claude_response |-> None]

----------------------------------------------------------------------------
(* DualModelOrchestrator.execute_phase3_code *)

\* the text of the analysis request sent to the knowledge provider
analysis_prompt(messages, last_error) ==
    <<"ANALYSIS", last_error,
      IF messages # << >> THEN messages[Len(messages)].content ELSE <<"N/A">> >>

\* the retry message asks for a corrected version without quoting the error
retry_message_unquoted(last_error) == Message("user", <<"RETRY", << >> >>)

\* the synthetic user message appended on a retry
retry_message(last_error) == Message("user", <<"RETRY", last_error>>)

\* for attempt in range(max_retries): another iteration follows after `done`
RetryLoopContinuesOffByOne(done, max_retries) == done <= max_retries

RetryLoopContinues(done, max_retries) == done < max_retries

\* top of the retry loop with loop variable loc.attempt: issue the next main
\* call, or leave the loop and issue the knowledge analysis call
Phase3Loop(args, loc, calls, log) ==
    IF RetryLoopContinues(loc.attempt, args.max_retries)
    THEN LET retry == loc.attempt > 0 /\ Truthy(loc.last_error)
             messages_to_use ==
                 IF retry
                 THEN Append(args.messages, retry_message(loc.last_error[1]))
                 ELSE args.messages
         IN [pc |-> "p3_main",
             calls |-> Issue(calls, "main", messages_to_use),
             log |-> IF retry
                     THEN Append(log, <<"Phase 3: retry", loc.attempt + 1, args.max_retries>>)
                     ELSE log]
    ELSE [pc |-> "p3_knowledge",
          calls |-> Issue(calls, "knowledge",
                          <<Message("user", analysis_prompt(args.messages, loc.last_error))>>),
          log |-> Append(log, <<"Phase 3: knowledge analyses the error">>)]

\* the call is entered with these arguments and runs to its first await
Phase3Start(messages, full_codebase, max_retries) ==
    LET args == [NoArgs EXCEPT !.phase = "p3", !.messages = messages,
                               !.full_codebase = full_codebase,
                               !.max_retries = max_retries]
        log1 == Append(collaboration_log, <<"Phase 3: main generates code">>)
        log2 == IF full_codebase # << >>
                THEN Append(log1, <<"Phase 3: knowledge analyses files", Len(full_codebase)>>)
                ELSE log1
        nxt == Phase3Loop(args, NoLoc, << >>, log2)
    IN /\ o_args' = args
       /\ o_loc' = NoLoc
       /\ o_pc' = nxt.pc
       /\ o_calls' = nxt.calls
       /\ collaboration_log' = nxt.log
       /\ o_result' = None
       /\ o_ncalls' = o_ncalls + 1

\* the main provider answers an attempt of the retry loop
p3_after_main ==
    /\ o_pc = "p3_main"
    /\ \E out \in ProviderOutcomes :
        IF out.kind = "ok"
        THEN /\ o_calls' = Answer(o_calls, out)
             /\ o_result' = Some(OrchestratorResult(
                                out.content, Some(Response(MainName, out.content)),
                                None, <<MainName>>, collaboration_log))
             /\ o_pc' = "returned"
             /\ UNCHANGED <<o_loc, collaboration_log>>
        ELSE LET loc == [o_loc EXCEPT !.last_error = Some(out.content),
                                      !.attempt = o_loc.attempt + 1]
                 log == Append(collaboration_log, <<"Phase 3: error", out.content>>)
                 nxt == Phase3Loop(o_args, loc, Answer(o_calls, out), log)
             IN /\ o_loc' = loc
                /\ o_pc' = nxt.pc
                /\ o_calls' = nxt.calls
                /\ collaboration_log' = nxt.log
                /\ UNCHANGED o_result
    /\ UNCHANGED <<o_args, o_ncalls>>

\* the analysis request is repeated until the knowledge provider answers
p3_after_knowledge_retrying ==
    /\ o_pc = "p3_knowledge"
    /\ \E out \in ProviderOutcomes :
        IF out.kind = "ok"
        THEN /\ o_calls' = Answer(o_calls, out)
             /\ o_result' = Some(OrchestratorResult(
                                <<"FAILED">> \o out.content, None,
                                Some(Response(KnowledgeName, out.content)),
                                <<KnowledgeName>>, collaboration_log))
             /\ o_pc' = "returned"
        ELSE /\ o_calls' = Issue(Answer(o_calls, out), "knowledge",
                    <<Message("user", analysis_prompt(o_args.messages, o_loc.last_error))>>)
             /\ o_pc' = "p3_knowledge"
             /\ UNCHANGED o_result
    /\ UNCHANGED <<o_args, o_loc, collaboration_log, o_ncalls>>

\* the knowledge provider answers the analysis request
p3_after_knowledge ==
    /\ o_pc = "p3_knowledge"
    /\ \E out \in ProviderOutcomes :
        /\ o_calls' = Answer(o_calls, out)
        /\ IF out.kind = "ok"
           THEN /\ o_result' = Some(OrchestratorResult(
                                   <<"FAILED">> \o out.content, None,
                                   Some(Response(KnowledgeName, out.content)),
                                   <<KnowledgeName>>, collaboration_log))
                /\ o_pc' = "returned"
           ELSE /\ o_pc' = "raised"
                /\ UNCHANGED o_result
    /\ UNCHANGED <<o_args, o_loc, collaboration_log, o_ncalls>>

----------------------------------------------------------------------------
(* DualModelOrchestrator.execute_phase1_plan *)

\* the request that asks the knowledge provider to summarise the context
summary_prompt(external_context) == <<"SUMMARIZE", external_context>>

\* the message that carries the summary to the main provider
summary_message(context_summary) == Message("user", <<"SUMMARY", context_summary>>)

\* the summary message is inserted whatever the summary is
enhanced_messages_always(messages, context_summary) ==
    <<summary_message(context_summary)>> \o messages

\* enhanced_messages: lines 119-129
enhanced_messages(messages, context_summary) ==
    IF context_summary # << >>
    THEN <<summary_message(context_summary)>> \o messages
    ELSE messages

\* step 2 is reached with this summary: the main call is issued
Phase1Step2(messages, context_summary, calls, log) ==
    [pc |-> "p1_main",
     calls |-> Issue(calls, "main", enhanced_messages(messages, context_summary)),
     log |-> Append(log, <<"Phase 1: main writes the PRD">>)]

\* the call is entered with these arguments and runs to its first await
Phase1StartConcurrent(messages, external_context) ==
    /\ o_args' = [NoArgs EXCEPT !.phase = "p1", !.messages = messages,
                                !.external_context = external_context]
    /\ o_loc' = NoLoc
    /\ o_pc' = "p1_main"
    /\ o_calls' = IF Truthy(external_context)
                  THEN Issue(Issue(<< >>, "knowledge",
                                   <<Message("user", summary_prompt(external_context[1]))>>),
                             "main", messages)
                  ELSE Issue(<< >>, "main", messages)
    /\ collaboration_log' = Append(collaboration_log, <<"Phase 1: knowledge analyses the context">>)
    /\ o_result' = None
    /\ o_ncalls' = o_ncalls + 1

Phase1Start(messages, external_context) ==
    LET args == [NoArgs EXCEPT !.phase = "p1", !.messages = messages,
                               !.external_context = external_context]
        log1 == Append(collaboration_log, <<"Phase 1: knowledge analyses the context">>)
        nxt == IF Truthy(external_context)
               THEN [pc |-> "p1_knowledge",
                     calls |-> Issue(<< >>, "knowledge",
                                     <<Message("user", summary_prompt(external_context[1]))>>),
                     log |-> log1]
               ELSE Phase1Step2(messages, << >>, << >>, log1)
    IN /\ o_args' = args
       /\ o_loc' = NoLoc
       /\ o_pc' = nxt.pc
       /\ o_calls' = nxt.calls
       /\ collaboration_log' = nxt.log
       /\ o_result' = None
       /\ o_ncalls' = o_ncalls + 1

\* a failed summary request is swallowed and step 2 runs without a summary
p1_after_knowledge_swallowing ==
    /\ o_pc = "p1_knowledge"
    /\ \E out \in ProviderOutcomes :
        LET summary == IF out.kind = "ok" THEN out.content ELSE << >>
            nxt == Phase1Step2(o_args.messages, summary, Answer(o_calls, out),
                               collaboration_log)
        IN /\ o_loc' = [o_loc EXCEPT !.context_summary = summary]
           /\ o_pc' = nxt.pc
           /\ o_calls' = nxt.calls
           /\ collaboration_log' = nxt.log
    /\ UNCHANGED <<o_args, o_result, o_ncalls>>

\* the knowledge provider answers the summary request
p1_after_knowledge ==
    /\ o_pc = "p1_knowledge"
    /\ \E out \in ProviderOutcomes :
        IF out.kind = "ok"
        THEN LET log == Append(collaboration_log,
                               <<"Phase 1: analysis done", Len(out.content)>>)
                 nxt == Phase1Step2(o_args.messages, out.content, Answer(o_calls, out), log)
             IN /\ o_loc' = [o_loc EXCEPT !.context_summary = out.content]
                /\ o_pc' = nxt.pc
                /\ o_calls' = nxt.calls
                /\ collaboration_log' = nxt.log
        ELSE /\ o_calls' = Answer(o_calls, out)
             /\ o_pc' = "raised"
             /\ UNCHANGED <<o_loc, collaboration_log>>
    /\ UNCHANGED <<o_args, o_result, o_ncalls>>

\* the main provider answers the planning request
p1_after_main ==
    /\ o_pc = "p1_main"
    /\ \E out \in ProviderOutcomes :
        /\ o_calls' = Answer(o_calls, out)
        /\ IF out.kind = "ok"
           THEN /\ o_result' = Some(OrchestratorResult(
                                   out.content, Some(Response(MainName, out.content)),
                                   None, <<KnowledgeName, MainName>>, collaboration_log))
                /\ o_pc' = "returned"
           ELSE /\ o_pc' = "raised"
                /\ UNCHANGED o_result
    /\ UNCHANGED <<o_args, o_loc, collaboration_log, o_ncalls>>

----------------------------------------------------------------------------
(* DualModelOrchestrator.execute_phase2_design *)

\* the request that asks the knowledge provider to check the libraries
verify_prompt(libraries) == <<"COMPATIBILITY", libraries>>

\* `if libraries:` for an Optional list
HasLibrariesIsNotNone(libraries) == IsSet(libraries)

HasLibraries(libraries) == IsSet(libraries) /\ libraries[1] # << >>

\* final_content: lines 181-183
final_content(claude_content, compatibility_notes) ==
    IF compatibility_notes # << >>
    THEN claude_content \o <<"COMPAT_SECTION">> \o compatibility_notes
    ELSE claude_content

\* lines 181-190
Phase2Result(claude_response, compatibility_notes, log) ==
    OrchestratorResult(final_content(claude_response.content, compatibility_notes),
                       Some(claude_response), None, <<MainName, KnowledgeName>>, log)

\* the log is started afresh by each call
Phase2StartResettingLog(messages, libraries) ==
    /\ o_args' = [NoArgs EXCEPT !.phase = "p2", !.messages = messages,
                                !.libraries = libraries]
    /\ o_loc' = NoLoc
    /\ o_pc' = "p2_main"
    /\ o_calls' = Issue(<< >>, "main", messages)
    /\ collaboration_log' = <<<<"Phase 2: main designs the architecture">>>>
    /\ o_result' = None
    /\ o_ncalls' = o_ncalls + 1

\* the call is entered with these arguments and runs to its first await
Phase2Start(messages, libraries) ==
    /\ o_args' = [NoArgs EXCEPT !.phase = "p2", !.messages = messages,
                                !.libraries = libraries]
    /\ o_loc' = NoLoc
    /\ o_pc' = "p2_main"
    /\ o_calls' = Issue(<< >>, "main", messages)
    /\ collaboration_log' = Append(collaboration_log, <<"Phase 2: main designs the architecture">>)
    /\ o_result' = None
    /\ o_ncalls' = o_ncalls + 1

\* the main provider answers the design request
p2_after_main ==
    /\ o_pc = "p2_main"
    /\ \E out \in ProviderOutcomes :
        IF out.kind = "ok"
        THEN LET claude_response == Response(MainName, out.content)
             IN /\ o_loc' = [o_loc EXCEPT !.claude_response = Some(claude_response)]
                /\ IF HasLibraries(o_args.libraries)
                   THEN /\ collaboration_log' = Append(collaboration_log,
                               <<"Phase 2: knowledge verifies libraries", Len(o_args.libraries[1])>>)
                        /\ o_calls' = Issue(Answer(o_calls, out), "knowledge",
                               <<Message("user", verify_prompt(o_args.libraries[1]))>>)
                        /\ o_pc' = "p2_knowledge"
                        /\ UNCHANGED o_result
                   ELSE /\ o_calls' = Answer(o_calls, out)
                        /\ o_result' = Some(Phase2Result(claude_response, << >>, collaboration_log))
                        /\ o_pc' = "returned"
                        /\ UNCHANGED collaboration_log
        ELSE /\ o_calls' = Answer(o_calls, out)
             /\ o_pc' = "raised"
             /\ UNCHANGED <<o_loc, o_result, collaboration_log>>
    /\ UNCHANGED <<o_args, o_ncalls>>

\* the knowledge provider answers the compatibility request
p2_after_knowledge ==
    /\ o_pc = "p2_knowledge"
    /\ \E out \in ProviderOutcomes :
        /\ o_calls' = Answer(o_calls, out)
        /\ IF out.kind = "ok"
           THEN /\ o_result' = Some(Phase2Result(o_loc.claude_response[1], out.content,
                                                 collaboration_log))
                /\ o_pc' = "returned"
           ELSE \* the ProviderError is not caught: lines 176-178
                /\ o_pc' = "raised"
                /\ UNCHANGED o_result
    /\ UNCHANGED <<o_args, o_loc, collaboration_log, o_ncalls>>

----------------------------------------------------------------------------
(* DualModelOrchestrator.execute_phase0_init *)

\* the request goes to the main provider
Phase0StartAskingMain(messages) ==
    /\ o_args' = [NoArgs EXCEPT !.phase = "p0", !.messages = messages]
    /\ o_loc' = NoLoc
    /\ o_pc' = "p0_knowledge"
    /\ o_calls' = Issue(<< >>, "main", messages)
    /\ collaboration_log' = Append(collaboration_log, <<"Phase 0: knowledge analyses the intent">>)
    /\ o_result' = None
    /\ o_ncalls' = o_ncalls + 1

\* the call is entered with these arguments and runs to its await
Phase0Start(messages) ==
    /\ o_args' = [NoArgs EXCEPT !.phase = "p0", !.messages = messages]
    /\ o_loc' = NoLoc
    /\ o_pc' = "p0_knowledge"
    /\ o_calls' = Issue(<< >>, "knowledge", messages)
    /\ collaboration_log' = Append(collaboration_log, <<"Phase 0: knowledge analyses the intent">>)
    /\ o_result' = None
    /\ o_ncalls' = o_ncalls + 1

\* a result sourced from the knowledge provider alone: lines 80-85, 299-304
KnowledgeOnlyResult(content, log) ==
    OrchestratorResult(content, None, Some(Response(KnowledgeName, content)),
                       <<KnowledgeName>>, log)

\* a result sourced from the main provider alone: lines 313-318
MainOnlyResult(content, log) ==
    OrchestratorResult(content, Some(Response(MainName, content)), None,
                       <<MainName>>, log)

\* the knowledge provider answers the phase 0 request
p0_after_knowledge ==
    /\ o_pc = "p0_knowledge"
    /\ \E out \in ProviderOutcomes :
        /\ o_calls' = Answer(o_calls, out)
        /\ IF out.kind = "ok"
           THEN /\ o_result' = Some(KnowledgeOnlyResult(out.content, collaboration_log))
                /\ o_pc' = "returned"
           ELSE /\ o_pc' = "raised"
                /\ UNCHANGED o_result
    /\ UNCHANGED <<o_args, o_loc, collaboration_log, o_ncalls>>

----------------------------------------------------------------------------
(* DualModelOrchestrator.execute_phase4_test *)

\* audit_context: one labelled block per file of the codebase, lines 281-286
audit_context(full_codebase) ==
    [i \in 1..Len(full_codebase) |->
        <<"BLOCK", full_codebase[i].path, full_codebase[i].content>>]

\* audit_messages: lines 288-293
audit_messages(messages, full_codebase) ==
    IF audit_context(full_codebase) # << >>
    THEN <<Message("user", <<"CODEBASE", audit_context(full_codebase)>>)>> \o messages
    ELSE messages

\* `if mode == "audit"`: line 277
IsAuditAlways(mode) == TRUE

IsAudit(mode) == mode = "audit"

\* the call is entered with these arguments and runs to its await
Phase4Start(messages, full_codebase, mode) ==
    /\ o_args' = [NoArgs EXCEPT !.phase = "p4", !.messages = messages,
                                !.full_codebase = full_codebase, !.mode = mode]
    /\ o_loc' = NoLoc
    /\ o_result' = None
    /\ o_ncalls' = o_ncalls + 1
    /\ IF IsAudit(mode)
       THEN /\ o_pc' = "p4_knowledge"
            /\ o_calls' = Issue(<< >>, "knowledge", audit_messages(messages, full_codebase))
            /\ collaboration_log' = Append(collaboration_log, <<"Phase 4: knowledge audits">>)
       ELSE /\ o_pc' = "p4_main"
            /\ o_calls' = Issue(<< >>, "main", messages)
            /\ collaboration_log' = Append(collaboration_log, <<"Phase 4: main writes edge cases">>)

\* the knowledge provider answers the audit request
p4_after_knowledge ==
    /\ o_pc = "p4_knowledge"
    /\ \E out \in ProviderOutcomes :
        /\ o_calls' = Answer(o_calls, out)
        /\ IF out.kind = "ok"
           THEN /\ o_result' = Some(KnowledgeOnlyResult(out.content, collaboration_log))
                /\ o_pc' = "returned"
           ELSE /\ o_pc' = "raised"
                /\ UNCHANGED o_result
    /\ UNCHANGED <<o_args, o_loc, collaboration_log, o_ncalls>>

\* the main provider answers the edge-case request
p4_after_main ==
    /\ o_pc = "p4_main"
    /\ \E out \in ProviderOutcomes :
        /\ o_calls' = Answer(o_calls, out)
        /\ IF out.kind = "ok"
           THEN /\ o_result' = Some(MainOnlyResult(out.content, collaboration_log))
                /\ o_pc' = "returned"
           ELSE /\ o_pc' = "raised"
                /\ UNCHANGED o_result
    /\ UNCHANGED <<o_args, o_loc, collaboration_log, o_ncalls>>

----------------------------------------------------------------------------
(* DualModelOrchestrator.query_knowledge *)

\* query[:50]
QueryLogChars == 50

\* messages: lines 331-335
query_messages(query, context) ==
    IF Truthy(context)
    THEN <<Message("user", <<"CONTEXT", context[1]>>), Message("user", query)>>
    ELSE <<Message("user", query)>>

\* the call is entered with these arguments and runs to its await
QueryStart(query, context) ==
    /\ o_args' = [NoArgs EXCEPT !.phase = "qk", !.query = query, !.context = context]
    /\ o_loc' = NoLoc
    /\ o_pc' = "qk_knowledge"
    /\ o_calls' = Issue(<< >>, "knowledge", query_messages(query, context))
    /\ collaboration_log' = Append(collaboration_log,
            <<"Knowledge Query", SubSeq(query, 1, Min(Len(query), QueryLogChars))>>)
    /\ o_result' = None
    /\ o_ncalls' = o_ncalls + 1

\* the knowledge provider answers the query: the text itself is returned
qk_after_knowledge ==
    /\ o_pc = "qk_knowledge"
    /\ \E out \in ProviderOutcomes :
        /\ o_calls' = Answer(o_calls, out)
        /\ IF out.kind = "ok"
           THEN /\ o_result' = Some(out.content)
                /\ o_pc' = "returned"
           ELSE /\ o_pc' = "raised"
                /\ UNCHANGED o_result
    /\ UNCHANGED <<o_args, o_loc, collaboration_log, o_ncalls>>

\* the caller of a phase call that returns receives the OrchestratorResult
\* and with it the copy of the log made at the return statement
RecordReturn ==
    returned_logs' =
        IF o_pc' = "returned" /\ o_args.phase # "qk"
        THEN Append(returned_logs, o_result'[1].collaboration_log)
        ELSE returned_logs

----------------------------------------------------------------------------
(* Verifier results *)

\* the k-th issue of a check: even issues carry a line number
VerifyIssue(k) ==
    [level |-> "error", message |-> <<"m", k>>,
     line |-> IF k % 2 = 0 THEN Some(k) ELSE None]

MkIssues(n) == [k \in 1..n |-> VerifyIssue(k)]

VerifyResult(success, check_type, nissues, fix_applied) ==
    [success |-> success, check_type |-> check_type,
     issues |-> MkIssues(nissues), fix_applied |-> fix_applied, output |-> ""]

\* lengths of the issue lists a check reports
IssueCounts == {0, 1, MaxIssues}

\* what one check can report: pass or fail, with or without issues
CheckOutcomes == [success : BOOLEAN, nissues : IssueCounts]

\* the builtin all() on a list of booleans: False at the first false
\* element, True when the list runs out
RECURSIVE all(_)
all(bools) ==
    IF bools = << >> THEN TRUE
    ELSE IF ~Head(bools) THEN FALSE
    ELSE all(Tail(bools))

\* is_all_passed with any() in place of all()
is_all_passed_any(results) == \E i \in 1..Len(results) : results[i].success

\* LanguageVerifier.is_all_passed
is_all_passed(results) == all([i \in 1..Len(results) |-> results[i].success])

\* verify_file: the checks a level runs on an existing file ("all" is verify_all)
verify_file_checks(level) ==
    IF level \in {"syntax", "types", "lint", "test"} THEN <<level>> ELSE << >>

----------------------------------------------------------------------------
(* SelfHealingWorkflow *)

FixPromptErrors == 10

HealingResult(success, attempts, original_errors, remaining_errors, fixed_code) ==
    [success |-> success, attempts |-> attempts,
     original_errors |-> original_errors,
     remaining_errors |-> remaining_errors, fixed_code |-> fixed_code]

\* SelfHealingWorkflow._collect_errors
RECURSIVE _collect_errors(_)
_collect_errors(verify_results) ==
    IF verify_results = << >> THEN << >>
    ELSE LET issues == Head(verify_results).issues
             errs == [k \in 1..Len(issues) |->
                         IF IsSet(issues[k].line) /\ issues[k].line[1] # 0
                         THEN <<"Line", issues[k].line[1], issues[k].message>>
                         ELSE issues[k].message]
         IN errs \o _collect_errors(Tail(verify_results))

\* SelfHealingWorkflow._build_fix_prompt
_build_fix_prompt(code, errors) ==
    <<"FIX", code, SubSeq(errors, 1, Min(FixPromptErrors, Len(errors)))>>

\* the level of the re-verification after a fix was written
HealVerifyLevelTypes == "types"

HealVerifyLevel == "syntax"

\* the retry budget _request_fix gives execute_phase3_code
HealMaxRetries == 1

\* for attempt in range(1, self.max_attempts + 1): another iteration follows
\* after `done` iterations
LoopContinuesOffByOne(done, max_attempts) == done <= max_attempts

LoopContinues(done, max_attempts) == done < max_attempts

\* `if not fixed_code: continue` is not taken
HasFixIsNotNone(fixed_code) == IsSet(fixed_code)

HasFix(fixed_code) == Truthy(fixed_code)

\* the bookkeeping of a passing re-check
MarkSuccessKeepErrors(res) == [res EXCEPT !.success = TRUE]

MarkSuccess(res) == [res EXCEPT !.success = TRUE, !.remaining_errors = << >>]

\* what _request_fix returns once execute_phase3_code has returned or raised
_request_fix ==
    IF o_pc = "returned" THEN Some(_clean_code_output(o_result[1].content)) ELSE None

\* heal() is entered: lines 100-109
heal ==
    /\ h_pc = "idle"
    /\ result' = HealingResult(FALSE, 0, _collect_errors(h_in.verify_results), << >>, None)
    /\ attempt' = 0
    /\ h_pc' = "loop"
    /\ UNCHANGED <<h_in, file, h_trace, orch_vars, verify_vars, phase_vars, vh_vars, lib_vars>>

\* one iteration of the loop up to the await of _request_fix: lines 111-127
heal_attempt ==
    /\ h_pc = "loop"
    /\ LoopContinues(attempt, h_in.max_attempts)
    /\ attempt' = attempt + 1
    /\ result' = [result EXCEPT !.attempts = attempt + 1]
    /\ IF ~IsSet(file)
       THEN \* read_file raises FileError
            /\ h_pc' = "raised"
            /\ h_trace' = h_trace \o << <<"on_attempt", attempt + 1>> >>
            /\ UNCHANGED orch_vars
       ELSE LET errors == IF attempt + 1 = 1 THEN result.original_errors
                                             ELSE result.remaining_errors
                fix_prompt == _build_fix_prompt(file[1], errors)
            IN /\ h_pc' = "await_fix"
               /\ h_trace' = h_trace \o << <<"on_attempt", attempt + 1>>,
                                            <<"request", attempt + 1, fix_prompt>> >>
               /\ Phase3Start(<<Message("user", fix_prompt)>>,
                              h_in.full_codebase, HealMaxRetries)
               /\ UNCHANGED returned_logs
    /\ UNCHANGED <<h_in, file, verify_vars, phase_vars, vh_vars, lib_vars>>

\* _request_fix returns and the iteration runs to its end: lines 127-150
heal_after_fix ==
    /\ h_pc = "await_fix"
    /\ o_pc \in {"returned", "raised"}
    /\ LET fixed_code == _request_fix
       IN IF ~HasFix(fixed_code)
          THEN \* continue
               /\ h_pc' = "loop"
               /\ h_trace' = Append(h_trace, <<"no_fix", attempt>>)
               /\ UNCHANGED <<result, file>>
          ELSE \/ \* write_file raises FileError
                  /\ h_pc' = "raised"
                  /\ h_trace' = Append(h_trace, <<"write_failed", attempt>>)
                  /\ UNCHANGED <<result, file>>
               \/ \E out \in CheckOutcomes :
                    LET checks == verify_file_checks(HealVerifyLevel)
                        new_results == [i \in 1..Len(checks) |->
                            VerifyResult(out.success, checks[i], out.nissues, FALSE)]
                        written == [result EXCEPT !.fixed_code = fixed_code]
                        events == << <<"write", attempt, fixed_code[1]>> >>
                                  \o [i \in 1..Len(checks) |->
                                         <<"check", attempt, checks[i], out.success,
                                           _collect_errors(<<new_results[i]>>)>>]
                    IN /\ file' = fixed_code
                       /\ IF is_all_passed(new_results)
                          THEN /\ result' = MarkSuccess(written)
                               /\ h_trace' = h_trace \o events \o << <<"on_success", attempt>> >>
                               /\ h_pc' = "returned"
                          ELSE /\ result' = [written EXCEPT
                                     !.remaining_errors = _collect_errors(new_results)]
                               /\ h_trace' = h_trace \o events
                               /\ h_pc' = "loop"
    /\ UNCHANGED <<h_in, attempt, orch_vars, verify_vars, phase_vars, vh_vars, lib_vars>>

\* on exhaustion the content the file had before heal() is put back
heal_exhausted_restoring ==
    /\ h_pc = "loop"
    /\ ~LoopContinues(attempt, h_in.max_attempts)
    /\ h_trace' = Append(h_trace, <<"on_failure", attempt>>)
    /\ h_pc' = "returned"
    /\ file' = Some(<<"w", "w">>)
    /\ UNCHANGED <<h_in, attempt, result, orch_vars, verify_vars, phase_vars, vh_vars, lib_vars>>

\* on exhaustion heal() returns without notifying the failure observer
heal_exhausted_silent ==
    /\ h_pc = "loop"
    /\ ~LoopContinues(attempt, h_in.max_attempts)
    /\ h_pc' = "returned"
    /\ UNCHANGED <<h_in, attempt, result, file, h_trace, orch_vars, verify_vars, phase_vars, vh_vars, lib_vars>>

\* the loop is exhausted: lines 152-156
heal_exhausted ==
    /\ h_pc = "loop"
    /\ ~LoopContinues(attempt, h_in.max_attempts)
    /\ h_trace' = Append(h_trace, <<"on_failure", attempt>>)
    /\ h_pc' = "returned"
    /\ UNCHANGED <<h_in, attempt, result, file, orch_vars, verify_vars, phase_vars, vh_vars, lib_vars>>

\* the orchestrator steps taken inside _request_fix
heal_p3_after_main ==
    /\ h_pc = "await_fix"
    /\ p3_after_main
    /\ RecordReturn
    /\ UNCHANGED <<heal_vars, verify_vars, phase_vars, vh_vars, lib_vars>>

heal_p3_after_knowledge ==
    /\ h_pc = "await_fix"
    /\ p3_after_knowledge
    /\ RecordReturn
    /\ UNCHANGED <<heal_vars, verify_vars, phase_vars, vh_vars, lib_vars>>

OrchIdle ==
    /\ o_pc = "idle"
    /\ o_args = NoArgs
    /\ o_loc = NoLoc
    /\ o_calls = << >>
    /\ collaboration_log = << >>
    /\ o_result = None
    /\ o_ncalls = 0
    /\ returned_logs = << >>

HealIdle ==
    /\ h_pc = "off"
    /\ h_in = [max_attempts |-> 0, verify_results |-> << >>, full_codebase |-> << >>]
    /\ attempt = 0
    /\ result = HealingResult(FALSE, 0, << >>, << >>, None)
    /\ file = None
    /\ h_trace = << >>

VerifyIdle ==
    /\ v_pc = "off"
    /\ v_args = [fix |-> FALSE, skip_tests |-> FALSE]
    /\ v_results = << >>
    /\ v_invoked = << >>

PhaseIdle ==
    /\ state = None
    /\ cmd_log = << >>

VhIdle ==
    /\ vh_pc = "off"
    /\ vh_in = [supported |-> FALSE, full_codebase |-> << >>]
    /\ vh_results = None
    /\ vh_lint = None
    /\ vh_ret = None

\* _VERIFIER_MAP as the module defines it, for the extensions of the model
InitialVerifierMap == (".py" :> "PythonVerifier") @@ (".java" :> "JavaVerifier")

\* the empty dict
EmptyDict == [k \in {} |-> k]

FactoryIdle ==
    /\ _VERIFIER_MAP = InitialVerifierMap
    /\ _verifier_cache = EmptyDict
    /\ f_made = 0
    /\ f_log = << >>

TodoIdle ==
    /\ tasks = << >>
    /\ t_log = << >>

TextIdle ==
    /\ rt_in = None
    /\ rt_out = None

ListIdle ==
    /\ heap = << >>
    /\ m_log = << >>

LoopIdle ==
    /\ l_pc = "idle"
    /\ l_task = None
    /\ l_iter = 0
    /\ l_pending = 0

AuxIdle == ListIdle /\ LoopIdle

LibIdle == FactoryIdle /\ TodoIdle /\ TextIdle /\ AuxIdle

\* files heal() is given: missing, or holding some text
InitialFiles == {None, Some(<<"w", "w">>)}

CodebaseSnapshots == {<< >>, <<[path |-> "a.py", content |-> <<"w">>]>>}

InitHeal ==
    /\ OrchIdle
    /\ VerifyIdle
    /\ PhaseIdle
    /\ VhIdle
    /\ LibIdle
    /\ h_pc = "idle"
    /\ h_in \in [max_attempts : 0..MaxAttempts,
                  verify_results : {<<VerifyResult(FALSE, "syntax", n, FALSE)>> : n \in IssueCounts},
                  full_codebase : CodebaseSnapshots]
    /\ attempt = 0
    /\ result = HealingResult(FALSE, 0, << >>, << >>, None)
    /\ file \in InitialFiles
    /\ h_trace = << >>

NextHeal ==
    \/ heal
    \/ heal_attempt
    \/ heal_p3_after_main
    \/ heal_p3_after_knowledge
    \/ heal_after_fix
    \/ heal_exhausted

SpecHeal == InitHeal /\ [][NextHeal]_vars

----------------------------------------------------------------------------
(* verify_and_heal *)

\* SelfHealingWorkflow.__init__: max_attempts: int = 2
DefaultMaxAttempts == 2

\* verify_file(file_path, level): a missing file gives one failing syntax
\* result without issues, otherwise the one check of the level is run
verify_file_outcomes(level) ==
    IF ~IsSet(file)
    THEN {<<VerifyResult(FALSE, "syntax", 0, FALSE)>>}
    ELSE {<<VerifyResult(out.success, level, out.nissues, FALSE)>> : out \in CheckOutcomes}

\* verify_file(file_path, level=LINT, fix=True): fix_applied = fix and success
lint_fix_outcomes ==
    IF ~IsSet(file)
    THEN {<<VerifyResult(FALSE, "syntax", 0, FALSE)>>}
    ELSE {<<VerifyResult(out.success, "lint", out.nissues, out.success)>> :
             out \in CheckOutcomes}

\* the returned pair follows the lint results
LintPassOutcomeFromLint(lint_results) == <<is_all_passed(lint_results), None>>

\* what is returned after the lint pass: line 283
LintPassOutcome(lint_results) == <<TRUE, None>>

\* what is returned after healing: line 305
HealOutcome(healing_result) == <<healing_result.success, Some(healing_result)>>

\* the part of verify_and_heal before heal() is awaited: lines 264-296
verify_and_heal ==
    /\ vh_pc = "idle"
    /\ IF ~vh_in.supported
       THEN /\ vh_ret' = Some(<<TRUE, None>>)
            /\ vh_pc' = "returned"
            /\ UNCHANGED <<vh_results, vh_lint, heal_vars>>
       ELSE \E results \in verify_file_outcomes("syntax") :
            /\ vh_results' = Some(results)
            /\ IF is_all_passed(results)
               THEN \E lint_results \in lint_fix_outcomes, fixed \in {file, Some(<<"w">>)} :
                    /\ vh_lint' = Some(lint_results)
                    /\ file' = IF lint_results[1].fix_applied THEN fixed ELSE file
                    /\ vh_ret' = Some(LintPassOutcome(lint_results))
                    /\ vh_pc' = "returned"
                    /\ UNCHANGED <<h_pc, h_in, attempt, result, h_trace>>
               ELSE /\ h_in' = [max_attempts |-> DefaultMaxAttempts,
                                verify_results |-> results,
                                full_codebase |-> vh_in.full_codebase]
                    /\ h_pc' = "idle"
                    /\ vh_pc' = "healing"
                    /\ UNCHANGED <<vh_lint, vh_ret, attempt, result, file, h_trace>>
    /\ UNCHANGED <<vh_in, orch_vars, verify_vars, phase_vars, lib_vars>>

\* heal() has returned: lines 298-305
vh_after_heal ==
    /\ vh_pc = "healing"
    /\ h_pc = "returned"
    /\ vh_ret' = Some(HealOutcome(result))
    /\ vh_pc' = "returned"
    /\ UNCHANGED <<vh_in, vh_results, vh_lint, orch_vars, heal_vars, verify_vars, phase_vars, lib_vars>>

\* heal() has raised (FileError of read_file or write_file): it propagates
vh_heal_raised ==
    /\ vh_pc = "healing"
    /\ h_pc = "raised"
    /\ vh_pc' = "raised"
    /\ UNCHANGED <<vh_in, vh_results, vh_lint, vh_ret, orch_vars, heal_vars,
                   verify_vars, phase_vars, lib_vars>>

InitVerifyAndHeal ==
    /\ OrchIdle
    /\ VerifyIdle
    /\ PhaseIdle
    /\ LibIdle
    /\ h_pc = "off"
    /\ h_in = [max_attempts |-> 0, verify_results |-> << >>, full_codebase |-> << >>]
    /\ attempt = 0
    /\ result = HealingResult(FALSE, 0, << >>, << >>, None)
    /\ file \in InitialFiles
    /\ h_trace = << >>
    /\ vh_pc = "idle"
    /\ vh_in \in [supported : BOOLEAN, full_codebase : CodebaseSnapshots]
    /\ vh_results = None
    /\ vh_lint = None
    /\ vh_ret = None

NextVerifyAndHeal ==
    \/ verify_and_heal
    \/ heal
    \/ heal_attempt
    \/ heal_p3_after_main
    \/ heal_p3_after_knowledge
    \/ heal_after_fix
    \/ heal_exhausted
    \/ vh_after_heal
    \/ vh_heal_raised

SpecVerifyAndHeal == InitVerifyAndHeal /\ [][NextVerifyAndHeal]_vars

\* the syntax check was run and passed
SyntaxPassed == IsSet(vh_results) /\ is_all_passed(vh_results[1])

\* C19: verify_and_heal returns (True, None) without running heal() or
\* calling a provider when the file type is unsupported or the syntax check
\* passes, whatever the lint pass reports; only when the syntax check fails
\* does it run heal(), with a budget of 2 attempts, and return
\* (healing.success, healing result).
VerifyAndHealContract ==
    /\ (~vh_in.supported \/ SyntaxPassed) =>
          /\ h_pc = "off"
          /\ h_trace = << >>
          /\ o_ncalls = 0
          /\ vh_pc \in {"idle", "returned"}
          /\ vh_pc = "returned" => vh_ret = Some(<<TRUE, None>>)
    /\ h_pc # "off" =>
          /\ vh_in.supported
          /\ IsSet(vh_results) /\ ~is_all_passed(vh_results[1])
          /\ h_in.max_attempts = 2
          /\ h_in.verify_results = vh_results[1]
          /\ vh_lint = None
    /\ (vh_pc = "returned" /\ h_pc # "off") =>
          /\ h_pc = "returned"
          /\ vh_ret = Some(<<result.success, Some(result)>>)
          /\ result.attempts <= 2

VerifyAndHealWitness ==
    /\ vh_pc = "returned"
    /\ IsSet(vh_lint)
    /\ ~vh_lint[1][1].success
    /\ vh_ret = Some(<<TRUE, None>>)

----------------------------------------------------------------------------
(* A phase call made on an orchestrator instance *)

MessageLists ==
    { << >>,
      <<Message("user", <<"w">>)>>,
      <<Message("user", <<"w">>), Message("user", <<"w", "w">>)>> }

ExternalContexts == {None, Some(<< >>), Some(<<"c">>)}

LibraryLists == {None, Some(<< >>), Some(<<"lib1">>), Some(<<"lib1", "lib2">>)}

\* the instance is fresh: each behaviour follows one phase call
CanCall == o_pc = "idle"

execute_phase1_plan ==
    /\ CanCall
    /\ \E messages \in MessageLists, external_context \in ExternalContexts :
           Phase1Start(messages, external_context)
    /\ UNCHANGED <<returned_logs, heal_vars, verify_vars, phase_vars, vh_vars, lib_vars>>

execute_phase2_design ==
    /\ CanCall
    /\ \E messages \in MessageLists, libraries \in LibraryLists :
           Phase2Start(messages, libraries)
    /\ UNCHANGED <<returned_logs, heal_vars, verify_vars, phase_vars, vh_vars, lib_vars>>

execute_phase3_code ==
    /\ CanCall
    /\ \E messages \in MessageLists, full_codebase \in CodebaseSnapshots,
          max_retries \in 0..MaxRetries :
           Phase3Start(messages, full_codebase, max_retries)
    /\ UNCHANGED <<returned_logs, heal_vars, verify_vars, phase_vars, vh_vars, lib_vars>>

Modes == {"audit", "edge_cases", "coverage"}

Queries == {<<"w">>, <<"w", "w">>}

execute_phase0_init ==
    /\ CanCall
    /\ \E messages \in MessageLists : Phase0Start(messages)
    /\ UNCHANGED <<returned_logs, heal_vars, verify_vars, phase_vars, vh_vars, lib_vars>>

execute_phase4_test ==
    /\ CanCall
    /\ \E messages \in MessageLists, full_codebase \in CodebaseSnapshots, mode \in Modes :
           Phase4Start(messages, full_codebase, mode)
    /\ UNCHANGED <<returned_logs, heal_vars, verify_vars, phase_vars, vh_vars, lib_vars>>

query_knowledge ==
    /\ CanCall
    /\ \E query \in Queries, context \in ExternalContexts : QueryStart(query, context)
    /\ UNCHANGED <<returned_logs, heal_vars, verify_vars, phase_vars, vh_vars, lib_vars>>

OrchStep ==
    /\ \/ p0_after_knowledge
       \/ p1_after_knowledge
       \/ p1_after_main
       \/ p2_after_main
       \/ p2_after_knowledge
       \/ p3_after_main
       \/ p3_after_knowledge
       \/ p4_after_knowledge
       \/ p4_after_main
       \/ qk_after_knowledge
    /\ RecordReturn
    /\ UNCHANGED <<heal_vars, verify_vars, phase_vars, vh_vars, lib_vars>>

InitOrch == OrchIdle /\ HealIdle /\ VerifyIdle /\ PhaseIdle /\ VhIdle /\ LibIdle

NextOrch ==
    \/ execute_phase0_init
    \/ execute_phase4_test
    \/ query_knowledge
    \/ execute_phase1_plan
    \/ execute_phase2_design
    \/ execute_phase3_code
    \/ OrchStep

SpecOrch == InitOrch /\ [][NextOrch]_vars

----------------------------------------------------------------------------
(* A sequence of operations on one orchestrator instance *)

MaxCalls == 3           \* operations started on one instance

\* an operation can be started when none is running
CanCallAgain == o_pc \in {"idle", "returned", "raised"} /\ o_ncalls < MaxCalls

SeqMessages == <<Message("user", <<"w">>)>>

phase_call ==
    /\ CanCallAgain
    /\ \/ Phase0Start(SeqMessages)
       \/ \E external_context \in {None, Some(<<"c">>)} :
              Phase1Start(SeqMessages, external_context)
       \/ \E libraries \in {None, Some(<<"lib1">>)} :
              Phase2Start(SeqMessages, libraries)
       \/ \E max_retries \in 0..1 :
              Phase3Start(SeqMessages, << >>, max_retries)
       \/ \E mode \in {"audit", "edge_cases"} :
              Phase4Start(SeqMessages, << >>, mode)
       \/ QueryStart(<<"w">>, None)
    /\ UNCHANGED <<returned_logs, heal_vars, verify_vars, phase_vars, vh_vars, lib_vars>>

NextOrchSeq == phase_call \/ OrchStep

SpecOrchSeq == InitOrch /\ [][NextOrchSeq]_vars

----------------------------------------------------------------------------
(* Properties of the orchestrator *)

Finished == o_pc \in {"returned", "raised"}

CallsOf(provider) == {i \in 1..Len(o_calls) : o_calls[i].provider = provider}

\* the main provider raised ProviderError on every call made to it
MainAlwaysRaises == \A i \in CallsOf("main") : o_calls[i].outcome = "ProviderError"

\* max_retries main calls, all failed, followed by one knowledge call
Phase3ExhaustedCalls ==
    /\ Len(o_calls) = o_args.max_retries + 1
    /\ CallsOf("main") = 1..o_args.max_retries
    /\ CallsOf("knowledge") = {o_args.max_retries + 1}

\* the result is the failure-prefixed analysis of the knowledge provider
Phase3KnowledgeResult ==
    /\ o_pc = "returned"
    /\ IsSet(o_result)
    /\ IsSet(o_result[1].knowledge_response)
    /\ o_result[1].content = <<"FAILED">> \o o_result[1].knowledge_response[1].content
    /\ o_result[1].main_response = None
    /\ o_result[1].model_used = <<KnowledgeName>>

\* C4 as stated: when every main call raised ProviderError, a finished
\* execute_phase3_code has made exactly max_retries main calls and then one
\* knowledge call, and has returned the knowledge-sourced result.
Phase3FallbackAlwaysReturns ==
    (o_args.phase = "p3" /\ Finished /\ MainAlwaysRaises) =>
        (Phase3ExhaustedCalls /\ Phase3KnowledgeResult)

\* C4 as amended: when every main call raised ProviderError, a finished
\* execute_phase3_code has made exactly max_retries main calls and then one
\* knowledge call; it has returned the knowledge-sourced result if that
\* knowledge call returned, and has raised its ProviderError otherwise.
Phase3FallbackReturnsIfKnowledgeAnswers ==
    (o_args.phase = "p3" /\ Finished /\ MainAlwaysRaises) =>
        /\ Phase3ExhaustedCalls
        /\ o_calls[Len(o_calls)].outcome = "ok" => Phase3KnowledgeResult
        /\ o_calls[Len(o_calls)].outcome = "ProviderError" =>
               (o_pc = "raised" /\ o_result = None)

Phase3FallbackWitness ==
    /\ o_args.phase = "p3"
    /\ o_args.max_retries >= 2
    /\ MainAlwaysRaises
    /\ Phase3ExhaustedCalls
    /\ Phase3KnowledgeResult

\* C6: when the main design call succeeded, execute_phase2_design returns a
\* result, and if the compatibility call raised ProviderError the content is
\* the main provider's content without a compatibility section.
Phase2CompatibilityBestEffort ==
    (o_args.phase = "p2" /\ Finished /\ o_calls[1].outcome = "ok") =>
        /\ o_pc = "returned"
        /\ IsSet(o_result)
        /\ (\E i \in CallsOf("knowledge") : o_calls[i].outcome = "ProviderError") =>
               o_result[1].content = o_loc.claude_response[1].content

\* C9: with an empty or absent libraries list execute_phase2_design makes one
\* main call and no knowledge call, and the content it returns is the main
\* provider's content.
Phase2NoLibraries ==
    (o_args.phase = "p2" /\ ~(IsSet(o_args.libraries) /\ o_args.libraries[1] # << >>)) =>
        /\ CallsOf("knowledge") = {}
        /\ CallsOf("main") = {1}
        /\ o_pc = "returned" =>
              /\ o_calls[1].outcome = "ok"
              /\ o_result[1].content = o_result[1].main_response[1].content
              /\ \A k \in 1..Len(o_result[1].content) :
                     o_result[1].content[k] # "COMPAT_SECTION"

Phase2NoLibrariesWitness ==
    /\ o_args.phase = "p2"
    /\ o_args.libraries = Some(<< >>)
    /\ o_pc = "returned"
    /\ o_result[1].content # << >>

\* C10: provider calls of one phase call are sequential (only the last call
\* issued can be unanswered); in phase 1 every knowledge call precedes the
\* main call and has returned before it is issued, and is made whenever
\* external context was supplied; in phase 2 a knowledge call is issued only
\* after the main call has returned.
PhaseCallOrder ==
    /\ \A i \in 1..(Len(o_calls) - 1) : o_calls[i].outcome # "pending"
    /\ o_args.phase = "p1" =>
          \A i \in CallsOf("main") :
              /\ \A j \in CallsOf("knowledge") : j < i /\ o_calls[j].outcome = "ok"
              /\ Truthy(o_args.external_context) => CallsOf("knowledge") # {}
    /\ o_args.phase = "p2" =>
          \A j \in CallsOf("knowledge") :
              \E i \in CallsOf("main") : i < j /\ o_calls[i].outcome = "ok"

PhaseCallOrderWitness ==
    /\ o_args.phase = "p1"
    /\ o_pc = "returned"
    /\ CallsOf("knowledge") = {1}
    /\ CallsOf("main") = {2}

\* C11: every orchestrator operation issues a bounded number of generate
\* calls: phase 0, phase 4 and query_knowledge exactly one; phase 1 and
\* phase 2 each of their steps at most once (at most two calls); phase 3 at
\* most max_retries main calls followed by at most one knowledge call.
BoundedProviderCalls ==
    /\ o_args.phase \in {"p0", "p4", "qk"} => Len(o_calls) = 1
    /\ o_args.phase \in {"p1", "p2"} =>
          /\ Len(o_calls) <= 2
          /\ Cardinality(CallsOf("main")) <= 1
          /\ Cardinality(CallsOf("knowledge")) <= 1
    /\ o_args.phase = "p3" =>
          /\ Cardinality(CallsOf("main")) <= o_args.max_retries
          /\ Cardinality(CallsOf("knowledge")) <= 1
          /\ \A i \in CallsOf("main"), j \in CallsOf("knowledge") : i < j

BoundedProviderCallsWitness ==
    /\ o_args.phase = "p3"
    /\ o_pc = "raised"
    /\ o_args.max_retries >= 2
    /\ Cardinality(CallsOf("main")) = o_args.max_retries
    /\ Cardinality(CallsOf("knowledge")) = 1

\* C12: in phase 0, phase 1, phase 4 and query_knowledge, and for the primary
\* design call of phase 2, a provider call that raised ProviderError is the
\* last call of the operation (no retry, no fallback to the other provider),
\* the operation has raised and no result is returned.
ProviderErrorPropagates ==
    \A i \in 1..Len(o_calls) :
        (/\ o_calls[i].outcome = "ProviderError"
         /\ \/ o_args.phase \in {"p0", "p1", "p4", "qk"}
            \/ o_args.phase = "p2" /\ i = 1) =>
            /\ i = Len(o_calls)
            /\ o_pc = "raised"
            /\ o_result = None

ProviderErrorPropagatesWitness ==
    /\ o_args.phase = "p1"
    /\ Len(o_calls) = 1
    /\ o_calls[1].provider = "knowledge"
    /\ o_calls[1].outcome = "ProviderError"
    /\ o_pc = "raised"

IsPrefix(a, b) == Len(a) <= Len(b) /\ SubSeq(b, 1, Len(a)) = a

\* C13: the collaboration_log returned by a phase call has the log returned
\* by every earlier call on the same instance as a prefix and is strictly
\* longer than it.
LogAppendOnlyAcrossCalls ==
    \A j \in 1..Len(returned_logs) : \A i \in 1..(j - 1) :
        /\ IsPrefix(returned_logs[i], returned_logs[j])
        /\ Len(returned_logs[i]) < Len(returned_logs[j])

LogAppendOnlyAcrossCallsWitness ==
    /\ Len(returned_logs) >= 2
    /\ o_args.phase = "p2"
    /\ o_pc = "returned"
    /\ Len(returned_logs[1]) >= 2

\* the providers that returned a Response during the running call
Returned(provider) == \E i \in CallsOf(provider) : o_calls[i].outcome = "ok"

\* C14: in every OrchestratorResult returned by a phase call, main_response
\* is set iff the main provider returned a response during the call and
\* knowledge_response is set iff the knowledge provider did.
ResponsesMatchProviders ==
    (o_pc = "returned" /\ o_args.phase # "qk") =>
        /\ IsSet(o_result[1].main_response) <=> Returned("main")
        /\ IsSet(o_result[1].knowledge_response) <=> Returned("knowledge")

\* the provider name occurs in model_used
Names(model_used, name) == \E k \in 1..Len(model_used) : model_used[k] = name

\* C15: in every OrchestratorResult, model_used names the main provider iff
\* the main provider was invoked during the call and names the knowledge
\* provider iff the knowledge provider was invoked.
ModelUsedNamesContributors ==
    (o_pc = "returned" /\ o_args.phase # "qk") =>
        /\ Names(o_result[1].model_used, MainName) <=> CallsOf("main") # {}
        /\ Names(o_result[1].model_used, KnowledgeName) <=> CallsOf("knowledge") # {}

\* the messages of the main call are the caller's with one message carrying
\* the summary in front
SummaryInFront(sent, summary) ==
    /\ Len(sent) = Len(o_args.messages) + 1
    /\ sent[1] = Message("user", <<"SUMMARY", summary>>)
    /\ Tail(sent) = o_args.messages

\* C16 as stated: with external context the knowledge provider is called
\* once and the main provider receives the caller's messages with exactly
\* one message carrying the summary in front; without external context the
\* knowledge provider is not called and the main provider receives exactly
\* the caller's messages.
Phase1SummaryAlwaysInFront ==
    o_args.phase = "p1" =>
        IF Truthy(o_args.external_context)
        THEN /\ CallsOf("knowledge") = {1}
             /\ \A i \in CallsOf("main") :
                    i = 2 /\ SummaryInFront(o_calls[i].messages, o_calls[1].content)
        ELSE /\ CallsOf("knowledge") = {}
             /\ \A i \in CallsOf("main") :
                    i = 1 /\ o_calls[i].messages = o_args.messages

\* C16 as amended: the summary message is put in front only when the summary
\* the knowledge provider returned is not empty; an empty summary, like no
\* external context, leaves the caller's messages as they are.
Phase1SummaryInFrontIfNotEmpty ==
    o_args.phase = "p1" =>
        IF Truthy(o_args.external_context)
        THEN /\ CallsOf("knowledge") = {1}
             /\ \A i \in CallsOf("main") :
                    /\ i = 2
                    /\ IF o_calls[1].content # << >>
                       THEN SummaryInFront(o_calls[i].messages, o_calls[1].content)
                       ELSE o_calls[i].messages = o_args.messages
        ELSE /\ CallsOf("knowledge") = {}
             /\ \A i \in CallsOf("main") :
                    i = 1 /\ o_calls[i].messages = o_args.messages

Phase1SummaryWitness ==
    /\ o_args.phase = "p1"
    /\ o_pc = "returned"
    /\ Len(o_args.messages) = 2
    /\ Len(o_calls) = 2
    /\ o_calls[1].content # << >>
    /\ Len(o_calls[2].messages) = 3

\* the message renders every file of the codebase, in order
RendersCodebase(message) ==
    /\ message.role = "user"
    /\ message.content[1] = "CODEBASE"
    /\ Len(message.content[2]) = Len(o_args.full_codebase)
    /\ \A k \in 1..Len(o_args.full_codebase) :
           /\ message.content[2][k][2] = o_args.full_codebase[k].path
           /\ message.content[2][k][3] = o_args.full_codebase[k].content

\* C17 as stated: execute_phase4_test makes one call; in audit mode it goes
\* to the knowledge provider with the caller's messages preceded by one
\* message rendering the codebase, in edge_cases mode to the main provider
\* with the caller's messages.
Phase4AuditAlwaysRenders ==
    o_args.phase = "p4" =>
        /\ Len(o_calls) = 1
        /\ o_args.mode = "audit" =>
              /\ o_calls[1].provider = "knowledge"
              /\ Len(o_calls[1].messages) = Len(o_args.messages) + 1
              /\ RendersCodebase(o_calls[1].messages[1])
              /\ Tail(o_calls[1].messages) = o_args.messages
        /\ o_args.mode = "edge_cases" =>
              /\ o_calls[1].provider = "main"
              /\ o_calls[1].messages = o_args.messages

\* C17 as amended: in audit mode the codebase message is put in front only
\* when the codebase has a file; with no codebase the knowledge provider
\* receives the caller's messages as they are.
Phase4AuditRendersIfAnyFile ==
    o_args.phase = "p4" =>
        /\ Len(o_calls) = 1
        /\ o_args.mode = "audit" =>
              /\ o_calls[1].provider = "knowledge"
              /\ IF o_args.full_codebase # << >>
                 THEN /\ Len(o_calls[1].messages) = Len(o_args.messages) + 1
                      /\ RendersCodebase(o_calls[1].messages[1])
                      /\ Tail(o_calls[1].messages) = o_args.messages
                 ELSE o_calls[1].messages = o_args.messages
        /\ o_args.mode = "edge_cases" =>
              /\ o_calls[1].provider = "main"
              /\ o_calls[1].messages = o_args.messages

Phase4AuditWitness ==
    /\ o_args.phase = "p4"
    /\ o_args.mode = "audit"
    /\ o_args.full_codebase # << >>
    /\ o_args.messages # << >>
    /\ o_pc = "returned"

\* C18: execute_phase0_init calls the knowledge provider once and no other
\* provider; the result it returns has the content the knowledge provider
\* returned, the knowledge provider's name as model_used and no
\* main_response.
Phase0KnowledgeOnly ==
    o_args.phase = "p0" =>
        /\ Len(o_calls) = 1
        /\ o_calls[1].provider = "knowledge"
        /\ o_calls[1].messages = o_args.messages
        /\ o_pc = "returned" =>
              /\ o_result[1].content = o_calls[1].content
              /\ o_result[1].model_used = <<KnowledgeName>>
              /\ o_result[1].main_response = None

Phase0KnowledgeOnlyWitness ==
    /\ o_args.phase = "p0"
    /\ o_pc = "returned"
    /\ o_result[1].content # << >>

----------------------------------------------------------------------------
(* Properties of heal() *)

IsEvent(e, kind) == e[1] = kind

ChecksOf(trace) == {i \in 1..Len(trace) : IsEvent(trace[i], "check")}

RequestsOf(trace) == {i \in 1..Len(trace) : IsEvent(trace[i], "request")}

NoCheckPassed == \A i \in ChecksOf(h_trace) : ~h_trace[i][4]

\* C1: HealingResult.attempts never exceeds max_attempts, and when heal()
\* returns without any re-verification having passed, attempts equals
\* max_attempts exactly and success is false.
HealAttemptsBound ==
    /\ result.attempts <= h_in.max_attempts
    /\ (h_pc = "returned" /\ NoCheckPassed) =>
           (result.attempts = h_in.max_attempts /\ ~result.success)

HealAttemptsBoundWitness ==
    /\ h_pc = "returned"
    /\ h_in.max_attempts >= 2
    /\ result.attempts = h_in.max_attempts
    /\ ~result.success
    /\ Cardinality(ChecksOf(h_trace)) = h_in.max_attempts
    /\ NoCheckPassed

\* C2: once the syntax re-check of attempt k has passed, heal() has returned
\* with success = true and attempts = k: the passing check is followed only
\* by the success notification, exactly k fix requests were made, no provider
\* call is in flight, and every check run by heal() is a syntax check.
HealSuccessShortCircuit ==
    \A i \in ChecksOf(h_trace) :
        /\ h_trace[i][3] = "syntax"
        /\ h_trace[i][4] =>
              /\ h_pc = "returned"
              /\ result.success
              /\ result.attempts = h_trace[i][2]
              /\ attempt = h_trace[i][2]
              /\ i = Len(h_trace) - 1
              /\ IsEvent(h_trace[Len(h_trace)], "on_success")
              /\ Cardinality(RequestsOf(h_trace)) = h_trace[i][2]
              /\ o_pc \in {"returned", "raised"}
              /\ \A c \in 1..Len(o_calls) : o_calls[c].outcome # "pending"

HealSuccessShortCircuitWitness ==
    /\ h_pc = "returned"
    /\ result.success
    /\ result.attempts = 1
    /\ h_in.max_attempts >= 2

\* C3: success = true implies remaining_errors is empty and fixed_code is set.
HealSuccessInvariant ==
    result.success => (result.remaining_errors = << >> /\ IsSet(result.fixed_code))

HealSuccessInvariantWitness ==
    /\ result.success
    /\ result.attempts >= 2
    /\ \E i \in ChecksOf(h_trace) : ~h_trace[i][4]

\* C7: an attempt whose fix request yields no fix text leaves the file and
\* the HealingResult as they are and goes back to the top of the loop; the
\* attempt is already counted in attempts.
HealNoFixNoWrite ==
    [][ (h_pc = "await_fix" /\ o_pc \in {"returned", "raised"} /\ ~Truthy(_request_fix))
          => /\ file' = file
             /\ result' = result
             /\ result.attempts = attempt
             /\ attempt >= 1
             /\ attempt' = attempt
             /\ h_pc' = "loop" ]_vars

HealNoFixNoWriteWitness ==
    /\ h_pc = "loop"
    /\ o_pc = "raised"
    /\ IsEvent(h_trace[Len(h_trace)], "no_fix")
    /\ result.attempts = attempt
    /\ attempt >= 1

----------------------------------------------------------------------------
(* The verifier factory: get_verifier, register_verifier, verify_file *)

\* suffixes of the paths and extensions handed to the factory, as written
Suffixes == {".py", ".PY", ".java", ".go"}

\* str.lower() on a suffix
lower(suffix) == IF suffix = ".PY" THEN ".py" ELSE suffix

\* verifier classes a caller registers: one of the package, one of its own
RegistrableClasses == {"JavaVerifier", "GoVerifier"}

\* the class attribute `language`
language(class) ==
    CASE class = "PythonVerifier" -> "Python"
      [] class = "JavaVerifier" -> "Java"
      [] class = "TypeScriptVerifier" -> "TypeScript"
      [] class = "JavaScriptVerifier" -> "JavaScript"
      [] class = "DartVerifier" -> "Dart"
      [] class = "FlutterVerifier" -> "Flutter"
      [] class = "GoVerifier" -> "Go"
      [] OTHER -> "unknown"

\* the class attribute `extensions`
extensions(class) ==
    CASE class = "PythonVerifier" -> <<".py", ".pyi">>
      [] class = "JavaVerifier" -> <<".java">>
      [] class = "TypeScriptVerifier" -> <<".ts", ".tsx">>
      [] class = "JavaScriptVerifier" -> <<".js", ".jsx", ".mjs", ".cjs">>
      [] class \in {"DartVerifier", "FlutterVerifier"} -> <<".dart">>
      [] class = "GoVerifier" -> <<".go">>
      [] OTHER -> << >>

\* the verifiers whose __init__ sets self._project_root = None and whose
\* _find_project_root keeps what it finds there
CachesProjectRoot(class) ==
    class \in {"JavaVerifier", "TypeScriptVerifier", "JavaScriptVerifier",
               "DartVerifier", "FlutterVerifier"}

\* verifier_class(): a new instance
NewVerifier(class, id) == [class |-> class, id |-> id, project_root |-> None]

\* get_verifier without the cache and on the suffix as written
GetVerifierUncachedExact(map, cache, made, suffix) ==
    [verifier |-> NewVerifier(IF suffix \in DOMAIN map THEN map[suffix]
                              ELSE "NullVerifier", made + 1),
     cache |-> cache, made |-> made + 1]

\* get_verifier: the instance returned, the cache and the number of
\* instances afterwards
GetVerifier(map, cache, made, suffix) ==
    LET key == lower(suffix)
    IN IF key \in DOMAIN cache
       THEN [verifier |-> cache[key], cache |-> cache, made |-> made]
       ELSE LET verifier_class == IF key \in DOMAIN map THEN map[key]
                                  ELSE "NullVerifier"
                verifier == NewVerifier(verifier_class, made + 1)
            IN [verifier |-> verifier, cache |-> (key :> verifier) @@ cache,
                made |-> made + 1]

\* register_verifier that leaves the cache alone
KeepCached(cache, key) == cache

\* register_verifier: `del _verifier_cache[key]` when the key is cached
Evict(cache, key) == [k \in (DOMAIN cache) \ {key} |-> cache[k]]

\* _find_project_root of the caching verifiers (java.py, typescript.py,
\* flutter.py) and of the others; found is the root that the ancestors of
\* the file give, None when there is none
_find_project_root(verifier, found) ==
    IF CachesProjectRoot(verifier.class)
    THEN IF IsSet(verifier.project_root)
         THEN [root |-> verifier.project_root, verifier |-> verifier]
         ELSE [root |-> found,
               verifier |-> [verifier EXCEPT !.project_root = found]]
    ELSE [root |-> found, verifier |-> verifier]

\* project roots of the files checked
Projects == {"proj_a", "proj_b"}

FactoryEvent(op, suffix, verifier, root_used, own_root) ==
    [op |-> op, suffix |-> suffix, key |-> lower(suffix),
     class |-> verifier.class, id |-> verifier.id,
     language |-> language(verifier.class),
     extensions |-> extensions(verifier.class),
     root_used |-> root_used, own_root |-> own_root]

get_verifier ==
    /\ Len(f_log) < MaxLookups
    /\ \E suffix \in Suffixes :
        LET got == GetVerifier(_VERIFIER_MAP, _verifier_cache, f_made, suffix)
        IN /\ _verifier_cache' = got.cache
           /\ f_made' = got.made
           /\ f_log' = Append(f_log, FactoryEvent("get", suffix, got.verifier,
                                                  None, None))
    /\ UNCHANGED <<_VERIFIER_MAP, orch_vars, heal_vars, verify_vars, phase_vars,
                   vh_vars, todo_vars, text_vars, aux_vars>>

register_verifier ==
    /\ Len(f_log) < MaxLookups
    /\ \E extension \in Suffixes, verifier_class \in RegistrableClasses :
        /\ _VERIFIER_MAP' = (lower(extension) :> verifier_class) @@ _VERIFIER_MAP
        /\ _verifier_cache' = Evict(_verifier_cache, lower(extension))
        /\ f_log' = Append(f_log, FactoryEvent("register", extension,
                                               NewVerifier(verifier_class, 0),
                                               None, None))
    /\ UNCHANGED <<f_made, orch_vars, heal_vars, verify_vars, phase_vars,
                   vh_vars, todo_vars, text_vars, aux_vars>>

\* verify_file at a level whose check discovers the project root: the
\* verifier comes from get_verifier and the check calls _find_project_root
verify_file ==
    /\ Len(f_log) < MaxLookups
    /\ \E suffix \in Suffixes, own_root \in {None} \cup {Some(p) : p \in Projects} :
        LET got == GetVerifier(_VERIFIER_MAP, _verifier_cache, f_made, suffix)
            found == _find_project_root(got.verifier, own_root)
        IN /\ _verifier_cache' = (lower(suffix) :> found.verifier) @@ got.cache
           /\ f_made' = got.made
           /\ f_log' = Append(f_log, FactoryEvent("check", suffix, got.verifier,
                                                  found.root, own_root))
    /\ UNCHANGED <<_VERIFIER_MAP, orch_vars, heal_vars, verify_vars, phase_vars,
                   vh_vars, todo_vars, text_vars, aux_vars>>

InitFactory ==
    OrchIdle /\ HealIdle /\ VerifyIdle /\ PhaseIdle /\ VhIdle /\ LibIdle

NextFactory ==
    \/ get_verifier
    \/ register_verifier
    \/ verify_file

SpecFactory == InitFactory /\ [][NextFactory]_vars

\* no register_verifier call for key lies strictly between calls i and j
NoRegisterBetween(i, j, key) ==
    \A m \in (i + 1)..(j - 1) : ~(f_log[m].op = "register" /\ f_log[m].key = key)

\* C23: a verifier served from the per-extension cache behaves like a fresh
\* one: the project root used for a check on a file is the one found from
\* the file's own ancestors, whatever was checked before.
CachedVerifierUsesOwnRoot ==
    \A k \in 1..Len(f_log) :
        f_log[k].op = "check" => f_log[k].root_used = f_log[k].own_root

\* what a register_verifier step leaves alone
RegisterFrame ==
    (Len(f_log') = Len(f_log) + 1 /\ f_log'[Len(f_log')].op = "register") =>
        LET key == f_log'[Len(f_log')].key
        IN /\ DOMAIN _VERIFIER_MAP' \ {key} = DOMAIN _VERIFIER_MAP \ {key}
           /\ \A e \in DOMAIN _VERIFIER_MAP \ {key} :
                 _VERIFIER_MAP'[e] = _VERIFIER_MAP[e]
           /\ DOMAIN _verifier_cache' \ {key} = DOMAIN _verifier_cache \ {key}
           /\ \A e \in DOMAIN _verifier_cache \ {key} :
                 _verifier_cache'[e] = _verifier_cache[e]

\* every lookup of an extension after a registration for it gives the
\* registered class
RegisteredClassServed ==
    \A i \in 1..Len(f_log), j \in 1..Len(f_log) :
        (/\ i < j
         /\ f_log[i].op = "register"
         /\ f_log[j].op \in {"get", "check"}
         /\ f_log[j].key = f_log[i].key
         /\ NoRegisterBetween(i, j, f_log[i].key)) =>
            f_log[j].class = f_log[i].class

\* C24: register_verifier(ext, C) takes effect for ext and nothing else:
\* afterwards get_verifier on a path with extension ext returns an instance
\* of C even if another verifier for ext was cached, and for every other
\* extension the mapped class and the cached instance are unchanged.
RegisterTakesEffect == [](RegisteredClassServed) /\ [][RegisterFrame]_vars

RegisterTakesEffectWitness ==
    \E i \in 1..Len(f_log), j \in 1..Len(f_log), k \in 1..Len(f_log) :
        /\ i < j /\ j < k
        /\ f_log[i].op = "get" /\ f_log[j].op = "register" /\ f_log[k].op = "get"
        /\ f_log[i].key = f_log[j].key /\ f_log[k].key = f_log[j].key
        /\ f_log[i].class # f_log[j].class
        /\ f_log[k].class = f_log[j].class

\* C26: in any sequence of get_verifier calls, lookups of other extensions
\* in between included, two calls for the same extension return verifiers
\* with identical language and extensions.
SameExtensionSameMetadata ==
    \A i \in 1..Len(f_log), j \in 1..Len(f_log) :
        (/\ i < j
         /\ f_log[i].op = "get" /\ f_log[j].op = "get"
         /\ f_log[i].key = f_log[j].key
         /\ \A m \in (i + 1)..(j - 1) : f_log[m].op = "get") =>
            /\ f_log[j].language = f_log[i].language
            /\ f_log[j].extensions = f_log[i].extensions

SameExtensionSameMetadataWitness ==
    \E i \in 1..Len(f_log), j \in 1..Len(f_log) :
        /\ i + 1 < j
        /\ f_log[i].op = "get" /\ f_log[j].op = "get"
        /\ f_log[i].suffix = ".PY" /\ f_log[j].suffix = ".py"
        /\ f_log[i + 1].op = "get" /\ f_log[i + 1].key # ".py"
        /\ f_log[j].id = f_log[i].id
        /\ f_log[j].language = "Python"

----------------------------------------------------------------------------
(* LanguageVerifier.verify_all *)

\* `if not syntax_result.success: return results`
StopAfterSyntaxNever(syntax_result) == FALSE

StopAfterSyntax(syntax_result) == ~syntax_result.success

\* NullVerifier's checks without their note
NullVerifierResultSilent(check) == VerifyResult(TRUE, check, 0, FALSE)

\* NullVerifier.check_syntax, check_types, check_lint, run_tests
NullVerifierResult(check) ==
    [VerifyResult(TRUE, check, 0, FALSE) EXCEPT !.output = "unsupported"]

\* what a check of the verifier can report
CheckOutcomesOf(verifier) ==
    IF verifier = "NullVerifier" THEN {[success |-> TRUE, nissues |-> 0]}
    ELSE CheckOutcomes

\* the VerifyResult of one check of the verifier
ResultOf(verifier, check, out, fix_applied) ==
    IF verifier = "NullVerifier" THEN NullVerifierResult(check)
    ELSE VerifyResult(out.success, check, out.nissues, fix_applied)

\* verify_all is entered: line 122
verify_all ==
    /\ v_pc = "idle"
    /\ v_pc' = "syntax"
    /\ UNCHANGED <<v_args, v_results, v_invoked, orch_vars, heal_vars, phase_vars, vh_vars, lib_vars>>

\* lines 125-130
check_syntax ==
    /\ v_pc = "syntax"
    /\ \E out \in CheckOutcomesOf(v_args.verifier) :
        LET syntax_result == ResultOf(v_args.verifier, "syntax", out, FALSE)
        IN /\ v_results' = Append(v_results, syntax_result)
           /\ v_pc' = IF StopAfterSyntax(syntax_result) THEN "returned" ELSE "types"
    /\ v_invoked' = Append(v_invoked, "syntax")
    /\ UNCHANGED <<v_args, orch_vars, heal_vars, phase_vars, vh_vars, lib_vars>>

\* lines 133-134
check_types ==
    /\ v_pc = "types"
    /\ \E out \in CheckOutcomesOf(v_args.verifier) :
        v_results' = Append(v_results, ResultOf(v_args.verifier, "types", out, FALSE))
    /\ v_invoked' = Append(v_invoked, "types")
    /\ v_pc' = "lint"
    /\ UNCHANGED <<v_args, orch_vars, heal_vars, phase_vars, vh_vars, lib_vars>>

\* lines 137-141
check_lint ==
    /\ v_pc = "lint"
    /\ \E out \in CheckOutcomesOf(v_args.verifier), fix_applied \in BOOLEAN :
        /\ fix_applied => v_args.fix
        /\ v_results' = Append(v_results,
                               ResultOf(v_args.verifier, "lint", out, fix_applied))
    /\ v_invoked' = Append(v_invoked, "lint")
    /\ v_pc' = IF ~v_args.skip_tests THEN "test" ELSE "returned"
    /\ UNCHANGED <<v_args, orch_vars, heal_vars, phase_vars, vh_vars, lib_vars>>

\* lines 142-145
run_tests ==
    /\ v_pc = "test"
    /\ \E out \in CheckOutcomesOf(v_args.verifier) :
        v_results' = Append(v_results, ResultOf(v_args.verifier, "test", out, FALSE))
    /\ v_invoked' = Append(v_invoked, "test")
    /\ v_pc' = "returned"
    /\ UNCHANGED <<v_args, orch_vars, heal_vars, phase_vars, vh_vars, lib_vars>>

InitVerify ==
    /\ OrchIdle
    /\ HealIdle
    /\ PhaseIdle
    /\ VhIdle
    /\ LibIdle
    /\ v_pc = "idle"
    /\ \E fix \in BOOLEAN, skip_tests \in BOOLEAN, suffix \in {".py", ".go"} :
        \* verify_file: verifier = get_verifier(file_path)
        v_args = [fix |-> fix, skip_tests |-> skip_tests, suffix |-> suffix,
                  verifier |-> GetVerifier(_VERIFIER_MAP, _verifier_cache,
                                           f_made, suffix).verifier.class]
    /\ v_results = << >>
    /\ v_invoked = << >>

NextVerify ==
    \/ verify_all
    \/ check_syntax
    \/ check_types
    \/ check_lint
    \/ run_tests

SpecVerify == InitVerify /\ [][NextVerify]_vars

Pipeline == <<"syntax", "types", "lint", "test">>

\* C5: verify_all invokes the checks in the order syntax, types, lint, test,
\* each at most once and each contributing its own result; when it returns
\* after a failed syntax check only check_syntax was invoked and the result
\* list is the syntax result alone; otherwise syntax, types and lint were
\* invoked, followed by test unless skip_tests, whatever types and lint report.
VerifyAllOrder ==
    /\ Len(v_invoked) <= Len(Pipeline)
    /\ v_invoked = SubSeq(Pipeline, 1, Len(v_invoked))
    /\ Len(v_results) = Len(v_invoked)
    /\ \A i \in 1..Len(v_results) : v_results[i].check_type = v_invoked[i]
    /\ v_pc = "returned" =>
          IF ~v_results[1].success
          THEN v_invoked = <<"syntax">>
          ELSE v_invoked = IF v_args.skip_tests THEN <<"syntax", "types", "lint">>
                                                ELSE Pipeline

\* C27: is_all_passed(results) is true if and only if every element of
\* results has success true; for the empty list it is true.
AllPassedIffEverySuccess ==
    /\ is_all_passed(v_results) <=> ~(\E i \in 1..Len(v_results) : ~v_results[i].success)
    /\ v_results = << >> => is_all_passed(v_results)

AllPassedWitness ==
    /\ Len(v_results) = 3
    /\ v_results[1].success /\ ~v_results[2].success /\ v_results[3].success
    /\ ~is_all_passed(v_results)

\* C25: for a path whose extension is not registered get_verifier returns
\* the null verifier: each of its four checks returns success=True with no
\* issues and the unsupported note, so verify_all on it returns only passing
\* results.
NullVerifierPasses ==
    lower(v_args.suffix) \notin DOMAIN _VERIFIER_MAP =>
        /\ v_args.verifier = "NullVerifier"
        /\ \A i \in 1..Len(v_results) :
              /\ v_results[i].success
              /\ v_results[i].issues = << >>
              /\ v_results[i].output = "unsupported"
        /\ v_pc = "returned" =>
              /\ is_all_passed(v_results)
              /\ Len(v_results) = IF v_args.skip_tests THEN 3 ELSE 4

NullVerifierPassesWitness ==
    /\ v_pc = "returned"
    /\ v_args.suffix = ".go"
    /\ Len(v_results) = 4
    /\ v_results[4].output = "unsupported"

VerifyAllOrderWitness ==
    /\ v_pc = "returned"
    /\ ~v_results[1].success
    /\ v_results[1].issues # << >>

----------------------------------------------------------------------------
(* The checks of the language verifiers and the tools they run *)

Verifiers ==
    {"PythonVerifier", "JavaVerifier", "TypeScriptVerifier", "JavaScriptVerifier",
     "DartVerifier", "FlutterVerifier"}

CheckNames == {"syntax", "types", "lint", "test"}

\* how a check reaches its tool.  "builtin": no process is started
\* (ast.parse, or a check folded into another one); "direct": the tool is
\* argv[0] (javac, checkstyle, mvn, ./gradlew, node, dart, flutter);
\* "interpreter": [sys.executable, "-m", tool] (mypy, ruff, pytest);
\* "runner": _get_runner() + [tool] (npx | pnpm exec | yarn | bun x)
Launch(verifier, check) ==
    CASE verifier = "PythonVerifier" ->
            IF check = "syntax" THEN "builtin" ELSE "interpreter"
      [] verifier = "JavaVerifier" ->
            IF check = "types" THEN "builtin" ELSE "direct"
      [] verifier = "TypeScriptVerifier" ->
            IF check = "types" THEN "builtin" ELSE "runner"
      [] verifier = "JavaScriptVerifier" ->
            IF check = "types" THEN "builtin"
            ELSE IF check = "syntax" THEN "direct" ELSE "runner"
      [] OTHER ->
            IF check = "types" THEN "builtin" ELSE "direct"

\* run_tests returns before the try block, without a process, when
\* _find_test_file gives None (Python, TypeScript, JavaScript) or
\* _detect_build_tool gives None (Java).  Java with a build tool but no test
\* class, and Dart/Flutter with no test file, go on to run the whole suite.
ReturnsEarly(verifier, test_file_found, build_tool_found) ==
    CASE verifier \in {"PythonVerifier", "TypeScriptVerifier", "JavaScriptVerifier"} ->
            ~test_file_found
      [] verifier = "JavaVerifier" -> ~build_tool_found
      [] OTHER -> FALSE

\* the text of the early return
EarlyNote(verifier) ==
    IF verifier = "JavaVerifier" THEN "no build tool" ELSE "no test file"

\* where a check touches the file system to read the file or to discover the
\* project root, the build tool or the test file: not at all, inside its try
\* block, or before it
Discovery(verifier, check) ==
    CASE check = "types" -> "none"
      [] check = "test" -> "outside"
      [] verifier = "PythonVerifier" -> IF check = "syntax" THEN "inside" ELSE "none"
      [] verifier = "JavaVerifier" -> "none"
      [] verifier = "TypeScriptVerifier" -> "inside"
      [] verifier = "JavaScriptVerifier" -> IF check = "syntax" THEN "none" ELSE "inside"
      [] verifier = "DartVerifier" -> "inside"
      [] OTHER -> IF check = "lint" THEN "outside" ELSE "inside"

\* the check gets as far as subprocess.run
ShellsOut(verifier, check, test_file_found, build_tool_found) ==
    /\ Launch(verifier, check) # "builtin"
    /\ check = "test" => ~ReturnsEarly(verifier, test_file_found, build_tool_found)

\* whether argv[0] can be executed: the tool itself when run directly, the
\* running interpreter (always there) for sys.executable, the package
\* runner otherwise
Argv0Found(launch, tool_installed, runner_installed) ==
    CASE launch = "direct" -> tool_installed
      [] launch = "interpreter" -> TRUE
      [] OTHER -> runner_installed

\* what subprocess.run does.  Python raises FileNotFoundError only when
\* argv[0] cannot be executed; `python -m tool` with no such module exits
\* with a nonzero status; a package runner without the tool may fetch it,
\* fail or hang.
SubprocessOutcomes(launch, tool_installed, runner_installed) ==
    IF ~Argv0Found(launch, tool_installed, runner_installed)
    THEN {"FileNotFoundError"}
    ELSE IF tool_installed
    THEN {"exit_zero", "exit_nonzero", "TimeoutExpired", "Exception"}
    ELSE IF launch = "interpreter"
    THEN {"exit_nonzero"}
    ELSE {"exit_zero", "exit_nonzero", "TimeoutExpired"}

\* the VerifyResult a check builds from what the process did, and the kind
\* of text it puts in `output`
CheckResult(verifier, check, outcome, nissues, fix, errors_found) ==
    CASE outcome = "FileNotFoundError" ->
            [result |-> VerifyResult(TRUE, check, 0, FALSE), note |-> "not installed"]
      [] outcome \in {"TimeoutExpired", "Exception"} ->
            [result |-> VerifyResult(FALSE, check, 1, FALSE), note |-> "none"]
      [] OTHER ->
            LET success ==
                    IF verifier \in {"DartVerifier", "FlutterVerifier"} /\ check = "lint"
                    THEN TRUE
                    ELSE IF verifier = "JavaVerifier" /\ check = "lint"
                    THEN ~(errors_found /\ nissues > 0)
                    ELSE outcome = "exit_zero"
                \* run_tests reports one issue for a failed run and none otherwise
                reported == IF check = "test"
                            THEN (IF success THEN 0 ELSE 1)
                            ELSE nissues
            IN [result |-> VerifyResult(success, check, reported,
                                        check = "lint" /\ fix /\ success),
                note |-> "tool output"]

\* one check of one verifier is run on a file.  fs_error: the file system
\* refuses a step of the discovery (an unreadable directory makes iterdir
\* raise PermissionError)
run_check ==
    /\ v_pc = "tool_idle"
    /\ \E check \in CheckNames, tool_installed \in BOOLEAN, runner_installed \in BOOLEAN,
          fs_error \in BOOLEAN :
        LET verifier == v_args.verifier
            launch == Launch(verifier, check)
            where == Discovery(verifier, check)
            event == [check |-> check, launch |-> launch, ran |-> FALSE,
                      tool_installed |-> tool_installed,
                      outcome |-> "none", note |-> "none"]
        IN IF fs_error /\ where = "outside"
           THEN \* nothing catches the exception: the check raises
                /\ v_results' = << >>
                /\ v_invoked' = <<[event EXCEPT !.outcome = "raised"]>>
           ELSE IF fs_error /\ where = "inside"
           THEN LET built == CheckResult(verifier, check, "Exception", 0,
                                         v_args.fix, FALSE)
                IN /\ v_results' = <<built.result>>
                   /\ v_invoked' = <<[event EXCEPT !.outcome = "Exception",
                                                   !.note = built.note]>>
           ELSE IF ~ShellsOut(verifier, check, v_args.test_file_found,
                              v_args.build_tool_found)
           THEN \E ok \in (IF launch = "builtin" /\ check = "syntax"
                            THEN BOOLEAN ELSE {TRUE}) :
                /\ v_results' = <<VerifyResult(ok, check, IF ok THEN 0 ELSE 1, FALSE)>>
                /\ v_invoked' = <<[event EXCEPT !.note =
                                      IF check = "test" THEN EarlyNote(verifier)
                                      ELSE "skipped"]>>
           ELSE \E outcome \in SubprocessOutcomes(launch, tool_installed, runner_installed),
                   nissues \in {0, 1}, errors_found \in BOOLEAN :
                LET built == CheckResult(verifier, check, outcome,
                                         IF tool_installed THEN nissues ELSE 0,
                                         v_args.fix, errors_found)
                IN /\ v_results' = <<built.result>>
                   /\ v_invoked' = <<[event EXCEPT !.ran = TRUE,
                                                   !.outcome = outcome,
                                                   !.note = built.note]>>
    /\ v_pc' = "tool_done"
    /\ UNCHANGED <<v_args, orch_vars, heal_vars, phase_vars, vh_vars, lib_vars>>

InitTools ==
    /\ OrchIdle
    /\ HealIdle
    /\ PhaseIdle
    /\ VhIdle
    /\ LibIdle
    /\ v_pc = "tool_idle"
    /\ v_args \in [fix : BOOLEAN, skip_tests : {FALSE}, verifier : Verifiers,
                    test_file_found : BOOLEAN, build_tool_found : BOOLEAN]
    /\ v_results = << >>
    /\ v_invoked = << >>

NextTools == run_check

SpecTools == InitTools /\ [][NextTools]_vars

\* C20: whenever a check of a language verifier shells out to a tool that is
\* not installed, it reports success=True with an explanatory note and no
\* issues.
MissingToolPasses ==
    \A k \in 1..Len(v_invoked) :
        (v_invoked[k].ran /\ ~v_invoked[k].tool_installed) =>
            /\ v_results[k].success
            /\ v_results[k].issues = << >>
            /\ v_invoked[k].note = "not installed"

\* C21: every check method of every language verifier returns a VerifyResult
\* and never raises; a timeout of the tool or any other unexpected exception
\* during the check gives success=False with exactly one error-level issue.
ChecksNeverRaise ==
    v_pc = "tool_done" =>
        /\ v_invoked[1].outcome # "raised"
        /\ Len(v_results) = 1
        /\ v_invoked[1].outcome \in {"TimeoutExpired", "Exception"} =>
              /\ ~v_results[1].success
              /\ Len(v_results[1].issues) = 1
              /\ v_results[1].issues[1].level = "error"

\* C22: for every language verifier, run_tests on a file with no associated
\* test file returns success=True with an informational note and runs no
\* test runner.
NoTestFileNoRunner ==
    (/\ v_pc = "tool_done"
     /\ v_invoked[1].check = "test"
     /\ v_invoked[1].outcome # "raised"
     /\ ~v_args.test_file_found) =>
        /\ ~v_invoked[1].ran
        /\ v_results[1].success
        /\ v_invoked[1].note \in {"no test file", "no build tool"}

----------------------------------------------------------------------------
(* Phase state and the gates of the CLI commands *)

PhaseKeys == {"0", "1", "2", "3", "4"}

PhaseKey(n) == CASE n = 0 -> "0" [] n = 1 -> "1" [] n = 2 -> "2" [] n = 3 -> "3" [] OTHER -> "4"

LastPhase == 4

\* create_initial_state
create_initial_state(dual_mode) ==
    [current_phase |-> 0,
     phase_status |-> [k \in PhaseKeys |-> IF k = "0" THEN "in_progress" ELSE "pending"],
     dual_mode_active |-> dual_mode]

\* advance_phase that does not mark the phase it leaves
advance_phase_unmarked(st) ==
    IF st.current_phase < LastPhase
    THEN [st EXCEPT !.current_phase = st.current_phase + 1,
                    !.phase_status = [st.phase_status EXCEPT
                        ![PhaseKey(st.current_phase + 1)] = "in_progress"]]
    ELSE st

\* VibeState.advance_phase
advance_phase(st) ==
    IF st.current_phase < LastPhase
    THEN [st EXCEPT !.current_phase = st.current_phase + 1,
                    !.phase_status = [st.phase_status EXCEPT
                        ![PhaseKey(st.current_phase)] = "completed",
                        ![PhaseKey(st.current_phase + 1)] = "in_progress"]]
    ELSE st

\* VibeState.is_phase_complete
is_phase_complete(st, phase) == st.phase_status[PhaseKey(phase)] = "completed"

\* the gates: TRUE when the command is admitted
plan_gate(st) == ~(st.current_phase < 1 /\ ~is_phase_complete(st, 0))

\* design is admitted as soon as the plan phase was entered
design_gate_entered(st) == st.current_phase >= 1

design_gate(st) == is_phase_complete(st, 1)
scaffold_gate(st) == is_phase_complete(st, 2)
code_gate(st) == ~(st.current_phase < 3)
test_gate(st) == ~(st.current_phase < 3)

\* the state updates of the commands that succeed
plan_update(st) ==
    LET st1 == IF st.current_phase = 0 THEN advance_phase(st) ELSE st
    IN [st1 EXCEPT !.phase_status["1"] = "completed"]

design_update(st) ==
    LET st1 == IF st.current_phase < 2 THEN advance_phase(st) ELSE st
    IN [st1 EXCEPT !.phase_status["2"] = "completed"]

scaffold_update(st) == IF st.current_phase < 3 THEN advance_phase(st) ELSE st

no_update(st) == st

\* a command that loads the state, checks its gate, does its work (which may
\* fail or be cancelled) and on success saves the updated state
Command(name, Gate(_), Update(_)) ==
    /\ Len(cmd_log) < MaxCommands
    /\ IF ~IsSet(state)
       THEN \* load_state raises StateError
            /\ cmd_log' = Append(cmd_log, [name |-> name, pre |-> state,
                                           gate |-> "no_state", done |-> FALSE])
            /\ UNCHANGED state
       ELSE IF ~Gate(state[1])
       THEN \* PhaseError E040
            /\ cmd_log' = Append(cmd_log, [name |-> name, pre |-> state,
                                           gate |-> "rejected", done |-> FALSE])
            /\ UNCHANGED state
       ELSE \E ok \in BOOLEAN :
            /\ cmd_log' = Append(cmd_log, [name |-> name, pre |-> state,
                                           gate |-> "passed", done |-> ok])
            /\ state' = IF ok THEN Some(Update(state[1])) ELSE state
    /\ UNCHANGED <<orch_vars, heal_vars, verify_vars, vh_vars, lib_vars>>

\* vibe init: no gate; on success the initial state is saved
init ==
    /\ Len(cmd_log) < MaxCommands
    /\ \E ok \in BOOLEAN, use_dual_mode \in BOOLEAN :
        /\ cmd_log' = Append(cmd_log, [name |-> "init", pre |-> state,
                                       gate |-> "passed", done |-> ok])
        /\ state' = IF ok THEN Some(create_initial_state(use_dual_mode)) ELSE state
    /\ UNCHANGED <<orch_vars, heal_vars, verify_vars, vh_vars, lib_vars>>

plan == Command("plan", plan_gate, plan_update)
design == Command("design", design_gate, design_update)
scaffold == Command("scaffold", scaffold_gate, scaffold_update)
code == Command("code", code_gate, no_update)
test == Command("test", test_gate, no_update)

InitPhase == OrchIdle /\ HealIdle /\ VerifyIdle /\ PhaseIdle /\ VhIdle /\ LibIdle

NextPhase ==
    \/ init
    \/ plan
    \/ design
    \/ scaffold
    \/ code
    \/ test

SpecPhase == InitPhase /\ [][NextPhase]_vars

\* the command that follows in the fixed order init, plan, design, scaffold,
\* code, test
Successor(name) ==
    CASE name = "init" -> "plan"
      [] name = "plan" -> "design"
      [] name = "design" -> "scaffold"
      [] name = "scaffold" -> "code"
      [] name = "code" -> "test"
      [] OTHER -> "none"

\* C8: a command run directly after its predecessor in the fixed order has
\* succeeded passes its phase gate; in particular plan passes its gate
\* directly after a successful init.
WorkflowWalkable ==
    \A i \in 2..Len(cmd_log) :
        (cmd_log[i - 1].done /\ cmd_log[i].name = Successor(cmd_log[i - 1].name))
            => cmd_log[i].gate = "passed"

----------------------------------------------------------------------------
(* A VibeState from create_initial_state, advanced and queried *)

\* state.advance_phase()
advance ==
    /\ Len(cmd_log) < MaxStateCalls
    /\ LET post == advance_phase(state[1])
       IN /\ state' = Some(post)
          /\ cmd_log' = Append(cmd_log, [name |-> "advance_phase", pre |-> state[1],
                                         post |-> post, phase |-> 0, ret |-> FALSE])
    /\ UNCHANGED <<orch_vars, heal_vars, verify_vars, vh_vars, lib_vars>>

\* state.is_phase_complete(phase)
query_phase_complete ==
    /\ Len(cmd_log) < MaxStateCalls
    /\ \E phase \in 0..LastPhase :
        cmd_log' = Append(cmd_log, [name |-> "is_phase_complete", pre |-> state[1],
                                     post |-> state[1], phase |-> phase,
                                     ret |-> is_phase_complete(state[1], phase)])
    /\ UNCHANGED <<state, orch_vars, heal_vars, verify_vars, vh_vars, lib_vars>>

InitAdvance ==
    /\ OrchIdle /\ HealIdle /\ VerifyIdle /\ VhIdle /\ LibIdle
    /\ state \in {Some(create_initial_state(dual_mode)) : dual_mode \in BOOLEAN}
    /\ cmd_log = << >>

NextAdvance ==
    \/ advance
    \/ query_phase_complete

SpecAdvance == InitAdvance /\ [][NextAdvance]_vars

\* C28: starting from create_initial_state, after any number of
\* advance_phase calls current_phase is within 0..4, each call made below
\* phase 4 increased it by exactly 1 and a call made at phase 4 changed
\* nothing; every phase below current_phase is completed, current_phase is
\* in progress and every later phase is pending.
AdvancePhaseInvariant ==
    /\ state[1].current_phase \in 0..4
    /\ \A p \in 0..4 :
          state[1].phase_status[PhaseKey(p)] =
              IF p < state[1].current_phase THEN "completed"
              ELSE IF p = state[1].current_phase THEN "in_progress"
              ELSE "pending"
    /\ \A k \in 1..Len(cmd_log) :
          cmd_log[k].name = "advance_phase" =>
              IF cmd_log[k].pre.current_phase < 4
              THEN cmd_log[k].post.current_phase = cmd_log[k].pre.current_phase + 1
              ELSE cmd_log[k].post = cmd_log[k].pre

AdvancePhaseWitness ==
    /\ state[1].current_phase = 4
    /\ \E k \in 1..Len(cmd_log) :
          /\ cmd_log[k].name = "advance_phase"
          /\ cmd_log[k].pre.current_phase = 4
    /\ \E k \in 1..Len(cmd_log) :
          /\ cmd_log[k].name = "advance_phase"
          /\ cmd_log[k].pre.current_phase = 0

----------------------------------------------------------------------------
(* TodoList: get_next_task, get_task, mark_completed *)

TaskId(p) == CASE p = 1 -> "T1" [] p = 2 -> "T2" [] p = 3 -> "T3" [] OTHER -> "T4"

\* the ids a caller can name: those of the positions, and one of no task
TaskIds == {TaskId(p) : p \in 1..MaxTasks} \cup {"T9"}

TaskStatuses == {"pending", "completed", "skipped"}

\* depends_on lists of the tasks: nothing, the first task, the second task
\* together with a task that is not in the list
DependsOnLists == {<< >>, <<"T1">>, <<"T2", "T9">>}

\* the lists a TodoList is built from: ids follow the positions, but the
\* third task may repeat the id of the first
TaskLists ==
    UNION {{ts \in [1..n -> [id : TaskIds, status : TaskStatuses,
                             depends_on : DependsOnLists]] :
               \A p \in 1..n :
                   ts[p].id = TaskId(p) \/ (p = 3 /\ ts[p].id = "T1")}
           : n \in 0..MaxTasks}

\* TodoList.get_task: the position of the first task with the id
RECURSIVE get_task_from(_, _, _)
get_task_from(ts, task_id, i) ==
    IF i > Len(ts) THEN None
    ELSE IF ts[i].id = task_id THEN Some(i)
    ELSE get_task_from(ts, task_id, i + 1)

get_task(ts, task_id) == get_task_from(ts, task_id, 1)

\* deps_complete of get_next_task: all() over the dependencies that get_task
\* finds
deps_complete(ts, task) ==
    all([k \in 1..Len(task.depends_on) |->
            LET dep == get_task(ts, task.depends_on[k])
            IN IsSet(dep) => ts[dep[1]].status = "completed"])

RECURSIVE get_next_task_from(_, _)
get_next_task_from(ts, i) ==
    IF i > Len(ts) THEN None
    ELSE IF ts[i].status = "pending" /\ deps_complete(ts, ts[i]) THEN Some(i)
    ELSE get_next_task_from(ts, i + 1)

\* get_next_task that does not look at depends_on
get_next_task_first_pending(ts) ==
    IF \E i \in 1..Len(ts) : ts[i].status = "pending"
    THEN Some(CHOOSE i \in 1..Len(ts) :
                  /\ ts[i].status = "pending"
                  /\ \A m \in 1..(i - 1) : ts[m].status # "pending")
    ELSE None

\* TodoList.get_next_task: the position of the task returned, or None
get_next_task(ts) == get_next_task_from(ts, 1)

\* TodoList.mark_completed
mark_completed(ts, task_id) ==
    LET task == get_task(ts, task_id)
    IN IF IsSet(task) THEN [ts EXCEPT ![task[1]].status = "completed"] ELSE ts

call_get_next_task ==
    /\ t_log' = Some([op |-> "get_next_task", arg |-> "none",
                      ret |-> get_next_task(tasks), pre |-> tasks])
    /\ UNCHANGED <<tasks, orch_vars, heal_vars, verify_vars, phase_vars, vh_vars,
                   factory_vars, text_vars, aux_vars>>

call_mark_completed ==
    /\ \E task_id \in TaskIds :
        /\ tasks' = mark_completed(tasks, task_id)
        /\ t_log' = Some([op |-> "mark_completed", arg |-> task_id,
                          ret |-> None, pre |-> tasks])
    /\ UNCHANGED <<orch_vars, heal_vars, verify_vars, phase_vars, vh_vars,
                   factory_vars, text_vars, aux_vars>>

InitTodo ==
    /\ OrchIdle /\ HealIdle /\ VerifyIdle /\ PhaseIdle /\ VhIdle
    /\ FactoryIdle /\ TextIdle /\ AuxIdle
    /\ tasks \in TaskLists
    /\ t_log = None

NextTodo ==
    \/ call_get_next_task
    \/ call_mark_completed

SpecTodo == InitTodo /\ [][NextTodo]_vars

\* the task an id refers to is the first one in list order that carries it
Refers(ts, task_id) ==
    CHOOSE j \in 1..Len(ts) :
        ts[j].id = task_id /\ \A m \in 1..(j - 1) : ts[m].id # task_id

Exists(ts, task_id) == \E j \in 1..Len(ts) : ts[j].id = task_id

\* a dependency that exists in the list and is not completed
Blocks(ts, task_id) ==
    Exists(ts, task_id) /\ ts[Refers(ts, task_id)].status # "completed"

Eligible(ts, i) ==
    /\ ts[i].status = "pending"
    /\ \A k \in 1..Len(ts[i].depends_on) : ~Blocks(ts, ts[i].depends_on[k])

\* C29: get_next_task returns the first task in list order that is pending
\* and whose depends_on ids that exist in the list all refer to completed
\* tasks, and None iff there is no such task; after mark_completed on a
\* dependency a task that only it was blocking is eligible.
NextTaskContract ==
    IsSet(t_log) =>
        IF t_log[1].op = "get_next_task"
        THEN LET ret == t_log[1].ret
             IN /\ IsSet(ret) =>
                      /\ ret[1] \in 1..Len(tasks)
                      /\ Eligible(tasks, ret[1])
                      /\ \A m \in 1..(ret[1] - 1) : ~Eligible(tasks, m)
                /\ ~IsSet(ret) <=> ~(\E i \in 1..Len(tasks) : Eligible(tasks, i))
        ELSE LET before == t_log[1].pre
                 done == t_log[1].arg
             IN \A i \in 1..Len(before) :
                    (/\ before[i].status = "pending"
                     /\ ~(Exists(before, done) /\ Refers(before, done) = i)
                     /\ \A k \in 1..Len(before[i].depends_on) :
                           Blocks(before, before[i].depends_on[k]) =>
                               before[i].depends_on[k] = done)
                        => /\ Eligible(tasks, i)
                           /\ IsSet(get_next_task(tasks))
                           /\ get_next_task(tasks)[1] <= i

NextTaskWitness ==
    /\ IsSet(t_log)
    /\ t_log[1].op = "mark_completed"
    /\ t_log[1].arg = "T1"
    /\ Len(tasks) >= 2
    /\ t_log[1].pre[1].status = "pending"
    /\ tasks[2].status = "pending"
    /\ tasks[2].depends_on = <<"T1">>
    /\ get_next_task(t_log[1].pre) = Some(1)
    /\ get_next_task(tasks) = Some(2)

----------------------------------------------------------------------------
(* Code extraction: fence, extract, fence again, extract again *)

TextTokens == {"w", "p", "s", "n", "F"}

Texts == UNION {[1..n -> TextTokens] : n \in 0..MaxText}

\* language tags after the opening fence: none, python, another word
Tags == {<< >>, <<"p">>, <<"w">>}

\* the two extractors
Extractors == {"workflow", "cli"}

\* a response that fences the text: ```tag, newline, text, newline, ```
Fenced(tag, text) == <<"F">> \o tag \o <<"n">> \o text \o <<"n", "F">>

Extract(extractor, content) ==
    IF extractor = "workflow" THEN _clean_code_output(content)
    ELSE cli_clean_code_output(content)

\* the tags the pattern of the extractor accepts: (?:\w+)? and (?:python)?
TagAccepted(extractor, tag) ==
    IF extractor = "workflow" THEN TRUE ELSE tag \in {<< >>, <<"p">>}

HasFence(text) == \E k \in 1..Len(text) : text[k] = "F"

round_trip ==
    /\ IsSet(rt_in)
    /\ ~IsSet(rt_out)
    /\ LET in == rt_in[1]
           first == Extract(in.extractor, Fenced(in.tag, in.text))
           second == Extract(in.extractor, Fenced(in.tag, first))
       IN rt_out' = Some([first |-> first, second |-> second])
    /\ UNCHANGED <<rt_in, orch_vars, heal_vars, verify_vars, phase_vars, vh_vars,
                   factory_vars, todo_vars, aux_vars>>

InitRoundTrip ==
    /\ OrchIdle /\ HealIdle /\ VerifyIdle /\ PhaseIdle /\ VhIdle
    /\ FactoryIdle /\ TodoIdle /\ AuxIdle
    /\ rt_in \in {Some(in) : in \in [extractor : Extractors, tag : Tags, text : Texts]}
    /\ rt_out = None

NextRoundTrip == round_trip

SpecRoundTrip == InitRoundTrip /\ [][NextRoundTrip]_vars

\* C30 as stated: for any text without a triple-backtick fence, extracting
\* from a fenced response, fencing the extracted text again and extracting
\* again yields the original inner text.
RoundTripYieldsInnerText ==
    (IsSet(rt_out) /\ ~HasFence(rt_in[1].text)) =>
        rt_out[1].second = rt_in[1].text

\* C30: for any text without a triple-backtick fence, put in a fence whose
\* tag the extractor accepts, both extractions yield the inner text with
\* its leading and trailing whitespace removed.
RoundTripYieldsStrippedText ==
    (/\ IsSet(rt_out)
     /\ ~HasFence(rt_in[1].text)
     /\ TagAccepted(rt_in[1].extractor, rt_in[1].tag)) =>
        /\ rt_out[1].first = strip(rt_in[1].text)
        /\ rt_out[1].second = strip(rt_in[1].text)

RoundTripWitness ==
    /\ IsSet(rt_out)
    /\ rt_in[1].extractor = "cli"
    /\ rt_in[1].tag = <<"p">>
    /\ rt_in[1].text = <<"s", "w", "n">>
    /\ rt_out[1].second = <<"w">>

\* ---------------------------------------------------------------------
\* execute_phase3_code: what each attempt of the retry loop sends

IsPhase3 == o_args.phase = "p3"

MainCallsOf(calls) == {k \in 1..Len(calls) : calls[k].provider = "main"}

\* C31: in execute_phase3_code the first attempt sends the caller's
\* messages unmodified, and every later attempt sends the caller's messages
\* followed by one synthetic user message that quotes the error raised by
\* the immediately preceding attempt.
RetryQuotesPreviousError ==
    IsPhase3 =>
        \A k \in MainCallsOf(o_calls) :
            IF k = 1
            THEN o_calls[k].messages = o_args.messages
            ELSE /\ o_calls[k - 1].provider = "main"
                 /\ o_calls[k - 1].outcome = "ProviderError"
                 /\ o_calls[k].messages =
                        Append(o_args.messages,
                               [role |-> "user",
                                content |-> <<"RETRY", o_calls[k - 1].content>>])

\* a third attempt follows two attempts that failed with different errors
RetryQuotesPreviousErrorWitness ==
    /\ IsPhase3
    /\ Len(o_calls) >= 3
    /\ o_calls[3].provider = "main"
    /\ o_calls[1].content = <<"e1">>
    /\ o_calls[2].content = <<"e2">>
    /\ o_args.messages # << >>

KnowledgeCallsOf(calls) == {k \in 1..Len(calls) : calls[k].provider = "knowledge"}

FailedAttemptsOf(calls) ==
    {j \in MainCallsOf(calls) : calls[j].outcome = "ProviderError"}

\* the error section of an analysis prompt holds the text of error `err`
\* (error texts are atoms of the model: one contains another only if equal)
PromptHasError(prompt, err) == IsSet(prompt[2]) /\ prompt[2][1] = err

\* C32: when every phase-3 attempt has failed, the analysis request sent to
\* the knowledge provider contains the error of every failed attempt, not
\* only the last, together with the content of the caller's last message.
AnalysisHasEveryError ==
    IsPhase3 =>
        \A k \in KnowledgeCallsOf(o_calls) :
            LET prompt == o_calls[k].messages[1].content
            IN /\ \A j \in FailedAttemptsOf(o_calls) :
                     PromptHasError(prompt, o_calls[j].content)
               /\ prompt[3] = IF o_args.messages # << >>
                              THEN o_args.messages[Len(o_args.messages)].content
                              ELSE <<"N/A">>

\* ---------------------------------------------------------------------
\* heal(): fix prompts, observers and what is written to the file

First10(errors) == SubSeq(errors, 1, IF Len(errors) < 10 THEN Len(errors) ELSE 10)

\* the error list embedded in the fix prompt of a request event
PromptErrors(e) == e[3][3]

\* the errors collected by the re-verification of attempt n, in order
RECURSIVE RemainingOf(_, _)
RemainingOf(trace, n) ==
    IF trace = << >> THEN << >>
    ELSE (IF IsEvent(Head(trace), "check") /\ Head(trace)[2] = n
          THEN Head(trace)[5] ELSE << >>) \o RemainingOf(Tail(trace), n)

ReverifiedIn(trace, n) == \E j \in ChecksOf(trace) : trace[j][2] = n

\* C33: attempts in heal() are strictly sequential, and the error list in
\* attempt n's fix prompt is the first 10 of the original errors when
\* n = 1 and, when n > 1, the first 10 of the remaining errors observed by
\* the re-verification of attempt n-1.
PromptErrorsFromPreviousAttempt ==
    /\ \A i, j \in RequestsOf(h_trace) : i < j => h_trace[i][2] < h_trace[j][2]
    /\ \A i \in RequestsOf(h_trace) :
        LET n == h_trace[i][2]
        IN IF n = 1
           THEN PromptErrors(h_trace[i]) = First10(result.original_errors)
           ELSE /\ ReverifiedIn(h_trace, n - 1)
                /\ PromptErrors(h_trace[i]) = First10(RemainingOf(h_trace, n - 1))

\* C39: given a non-empty list of original errors, the error list embedded
\* in every fix request of heal() is non-empty, also on an attempt that
\* follows an attempt in which no fix text was returned.
FixRequestNamesErrors ==
    result.original_errors # << >> =>
        \A i \in RequestsOf(h_trace) : PromptErrors(h_trace[i]) # << >>

EventsOf(trace, kind) == {i \in 1..Len(trace) : IsEvent(trace[i], kind)}

\* C34: the attempt observer is notified exactly once per attempt, with
\* indices 1, 2, ... in increasing order and before that attempt's fix
\* request; when heal() returns, exactly one of the success and failure
\* observers has been notified, exactly once, and it is the success
\* observer iff the returned success is true.
ObserverProtocol ==
    LET notified == EventsOf(h_trace, "on_attempt")
        ended == EventsOf(h_trace, "on_success") \cup EventsOf(h_trace, "on_failure")
    IN /\ {h_trace[i][2] : i \in notified} = 1..attempt
       /\ Cardinality(notified) = attempt
       /\ \A i, j \in notified : i < j => h_trace[i][2] < h_trace[j][2]
       /\ \A r \in RequestsOf(h_trace) :
             \E i \in notified : i < r /\ h_trace[i][2] = h_trace[r][2]
       /\ h_pc = "returned" =>
             /\ Cardinality(ended) = 1
             /\ \A i \in ended : i = Len(h_trace)
             /\ \A i \in ended : IsEvent(h_trace[i], "on_success") <=> result.success
       /\ h_pc # "returned" => ended = {}

\* heal() returned failure after two attempts, both with a fix request
ObserverProtocolWitness ==
    /\ h_pc = "returned"
    /\ ~result.success
    /\ attempt = 2
    /\ Cardinality(RequestsOf(h_trace)) = 2
    /\ IsEvent(h_trace[Len(h_trace)], "on_failure")

WritesOf(trace) == EventsOf(trace, "write")

\* C35: every text heal() writes to the file is a fix generated by the
\* main provider: the text written in an attempt is the cleaned content of
\* a response the main provider returned to that attempt's fix request,
\* never the knowledge provider's failure analysis.
WritesOnlyMainFixes ==
    \A i \in WritesOf(h_trace) :
        h_trace[i][2] = attempt =>
            \E k \in MainCallsOf(o_calls) :
                /\ o_calls[k].outcome = "ok"
                /\ h_trace[i][3] = _clean_code_output(o_calls[k].content)

\* C40: when heal() returns, fixed_code is set iff heal() wrote the file at
\* least once, and then the file's content is fixed_code, the text of the
\* last write; when the attempts are exhausted the file keeps that last,
\* still failing, fix.
FixedCodeIsFileContent ==
    h_pc = "returned" =>
        LET writes == WritesOf(h_trace)
        IN /\ IsSet(result.fixed_code) <=> writes # {}
           /\ writes # {} =>
                LET last == CHOOSE i \in writes : \A j \in writes : j <= i
                IN /\ file = result.fixed_code
                   /\ file[1] = h_trace[last][3]

\* the attempts are exhausted after a write whose text differs from the
\* content the file had before heal(): the file holds the failing fix
FixedCodeIsFileContentWitness ==
    /\ h_pc = "returned"
    /\ ~result.success
    /\ WritesOf(h_trace) # {}
    /\ file = Some(<<"w">>)
    /\ result.fixed_code = Some(<<"w">>)

\* ---------------------------------------------------------------------
\* The message lists of the phase calls as objects: `messages` is a
\* reference to the caller's list, heap[1]; an in-place insert or append
\* changes the object it is applied to, whoever else refers to it.

MaxListCalls == 2       \* phase calls made with the same caller's list

CallerRef == 1

\* list.copy() that hands back the list itself
list_copy_aliasing(h, ref) == [heap |-> h, ref |-> ref]

\* list.copy(): a new list object with the same elements
list_copy(h, ref) == [heap |-> Append(h, h[ref]), ref |-> Len(h) + 1]

\* list.insert(0, m)
list_insert(h, ref, m) == [h EXCEPT ![ref] = <<m>> \o h[ref]]

\* list.append(m)
list_append(h, ref, m) == [h EXCEPT ![ref] = Append(h[ref], m)]

\* execute_phase1_plan, lines 119-129: the list given to the main provider
build_enhanced_messages(h, context_summary) ==
    IF context_summary # << >>
    THEN LET c == list_copy(h, CallerRef)
         IN [heap |-> list_insert(c.heap, c.ref, summary_message(context_summary)),
             ref |-> c.ref]
    ELSE [heap |-> h, ref |-> CallerRef]

\* execute_phase3_code, lines 212-226: the list one attempt gives to the
\* main provider
build_messages_to_use(h, n, last_error) ==
    IF n > 0 /\ Truthy(last_error)
    THEN LET c == list_copy(h, CallerRef)
         IN [heap |-> list_append(c.heap, c.ref, retry_message(last_error[1])),
             ref |-> c.ref]
    ELSE [heap |-> h, ref |-> CallerRef]

\* the retry loop from attempt n on, where errors holds the errors of the
\* attempts that fail: the heap it leaves and the lists it sent, in order
RECURSIVE phase3_sends(_, _, _, _)
phase3_sends(h, n, max_retries, errors) ==
    IF ~RetryLoopContinues(n, max_retries) \/ n > Len(errors)
    THEN [heap |-> h, sent |-> << >>]
    ELSE LET last_error == IF n = 0 THEN None ELSE Some(errors[n])
             b == build_messages_to_use(h, n, last_error)
             rest == phase3_sends(b.heap, n + 1, max_retries, errors)
         IN [heap |-> rest.heap, sent |-> <<b.heap[b.ref]>> \o rest.sent]

\* execute_phase4_test, lines 277-293: the list given to the knowledge
\* provider in audit mode, the caller's list otherwise
build_audit_messages(h, mode, full_codebase) ==
    IF IsAudit(mode)
    THEN LET c == list_copy(h, CallerRef)
         IN IF audit_context(full_codebase) # << >>
            THEN [heap |-> list_insert(c.heap, c.ref,
                              Message("user", <<"CODEBASE", audit_context(full_codebase)>>)),
                  ref |-> c.ref]
            ELSE c
    ELSE [heap |-> h, ref |-> CallerRef]

\* a phase call has run to its end: its local lists are dropped, the
\* caller keeps its list object
ListCall(op, h, sent) ==
    /\ Len(m_log) < MaxListCalls
    /\ m_log' = Append(m_log, [op |-> op, given |-> heap[CallerRef],
                               sent |-> sent, after |-> h[CallerRef]])
    /\ heap' = <<h[CallerRef]>>
    /\ UNCHANGED <<orch_vars, heal_vars, verify_vars, phase_vars, vh_vars,
                   factory_vars, todo_vars, text_vars, loop_vars>>

\* execute_phase0_init, execute_phase2_design: generate(messages, ...)
list_call_passthrough ==
    \E op \in {"p0", "p2"} : ListCall(op, heap, <<heap[CallerRef]>>)

list_call_phase1 ==
    \E context_summary \in Bodies :
        LET b == build_enhanced_messages(heap, context_summary)
        IN ListCall("p1", b.heap, <<b.heap[b.ref]>>)

list_call_phase3 ==
    \E max_retries \in 0..MaxRetries, nfailed \in 0..MaxRetries :
        \E errors \in [1..nfailed -> ErrMsgs] :
            LET r == phase3_sends(heap, 0, max_retries, errors)
            IN ListCall("p3", r.heap, r.sent)

list_call_phase4 ==
    \E mode \in Modes, full_codebase \in CodebaseSnapshots :
        LET b == build_audit_messages(heap, mode, full_codebase)
        IN ListCall("p4", b.heap, <<b.heap[b.ref]>>)

InitMessages ==
    /\ OrchIdle /\ HealIdle /\ VerifyIdle /\ PhaseIdle /\ VhIdle
    /\ FactoryIdle /\ TodoIdle /\ TextIdle /\ LoopIdle
    /\ heap \in {<<messages>> : messages \in MessageLists}
    /\ m_log = << >>

NextMessages ==
    \/ list_call_passthrough
    \/ list_call_phase1
    \/ list_call_phase3
    \/ list_call_phase4

SpecMessages == InitMessages /\ [][NextMessages]_vars

\* C38: no orchestrator operation mutates the caller's messages list: after
\* any phase call the list passed by the caller has the same length and
\* the same elements as before the call.
CallerMessagesUnchanged ==
    \A i \in 1..Len(m_log) :
        /\ Len(m_log[i].after) = Len(m_log[i].given)
        /\ \A k \in 1..Len(m_log[i].given) : m_log[i].after[k] = m_log[i].given[k]

\* a phase-3 call that retried, sending a longer list than the caller's,
\* after a phase-1 call that sent a list with the summary in front
CallerMessagesUnchangedWitness ==
    /\ Len(m_log) = 2
    /\ m_log[1].op = "p1"
    /\ Len(m_log[1].sent[1]) = Len(m_log[1].given) + 1
    /\ m_log[2].op = "p3"
    /\ Len(m_log[2].sent) = 2
    /\ Len(m_log[2].sent[2]) = Len(m_log[2].given) + 1
    /\ m_log[2].given # << >>

\* ---------------------------------------------------------------------
\* The phase gates on any state file the commands can have saved

\* what one more successful save can make of the states in S
SavedFrom(S) ==
    S \cup {plan_update(st) : st \in S}
      \cup {design_update(st) : st \in S}
      \cup {scaffold_update(st) : st \in S}

\* every VibeState built from create_initial_state by the updates the
\* commands save, in any order
RECURSIVE SavedClosure(_)
SavedClosure(S) == IF SavedFrom(S) = S THEN S ELSE SavedClosure(SavedFrom(S))

PersistedStates == SavedClosure({create_initial_state(TRUE)})

\* .vibe/state.json holds a state some earlier commands saved
InitGate ==
    /\ OrchIdle /\ HealIdle /\ VerifyIdle /\ VhIdle /\ LibIdle
    /\ state \in {Some(st) : st \in PersistedStates}
    /\ cmd_log = << >>

SpecGate == InitGate /\ [][NextPhase]_vars

PassedAs(name) ==
    {i \in 1..Len(cmd_log) : cmd_log[i].name = name /\ cmd_log[i].gate = "passed"}

MaxIterations == MaxTasks + 1

CountStatus(ts, status) == Cardinality({i \in 1..Len(ts) : ts[i].status = status})

\* `while task:` with the task get_next_task returned
LoopPosition(task) == IF IsSet(task) THEN "loop" ELSE "done"

\* lines 129-130: the first get_next_task
code_all_tasks ==
    /\ l_pc = "idle"
    /\ l_task' = get_next_task(tasks)
    /\ l_pc' = LoopPosition(get_next_task(tasks))
    /\ l_pending' = CountStatus(tasks, "pending")
    /\ l_iter' = 0
    /\ UNCHANGED <<orch_vars, heal_vars, verify_vars, phase_vars, vh_vars,
                   factory_vars, todo_vars, text_vars, list_vars>>

\* lines 131-144: an iteration begins and awaits the generation of the
\* task's files, which returns or raises
code_all_generate ==
    /\ l_pc = "loop"
    /\ l_iter' = Min(l_iter + 1, MaxIterations)
    /\ \E ok \in BOOLEAN : l_pc' = IF ok THEN "generated" ELSE "raised"
    /\ UNCHANGED <<l_task, l_pending, orch_vars, heal_vars, verify_vars, phase_vars,
                   vh_vars, factory_vars, todo_vars, text_vars, list_vars>>

\* line 146: todo_list.mark_completed(task.id) for the task at position i
mark_completed_by_id(ts, i) == mark_completed(ts, ts[i].id)

\* lines 146-150: the task is marked and the next one is fetched
code_all_complete ==
    /\ l_pc = "generated"
    /\ LET marked == mark_completed_by_id(tasks, l_task[1])
       IN /\ tasks' = marked
          /\ l_task' = get_next_task(marked)
          /\ l_pc' = LoopPosition(get_next_task(marked))
    /\ UNCHANGED <<t_log, l_iter, l_pending, orch_vars, heal_vars, verify_vars,
                   phase_vars, vh_vars, factory_vars, text_vars, list_vars>>

InitCodeAll ==
    /\ OrchIdle /\ HealIdle /\ VerifyIdle /\ PhaseIdle /\ VhIdle
    /\ FactoryIdle /\ TextIdle /\ ListIdle
    /\ tasks \in TaskLists
    /\ t_log = None
    /\ LoopIdle

NextCodeAll ==
    \/ code_all_tasks
    \/ code_all_generate
    \/ code_all_complete

\* the loop runs in one coroutine that nothing preempts: a step that can be
\* taken is taken
SpecCodeAll == InitCodeAll /\ [][NextCodeAll]_vars /\ WF_vars(NextCodeAll)

\* an iteration ends with more completed tasks than it began with
IterationCompletesOne ==
    l_pc = "generated" =>
        CountStatus(tasks', "completed") > CountStatus(tasks, "completed")

\* C37: for any TodoList, also with dependencies or repeated task ids, the
\* process-all loop terminates, after at most as many iterations as there
\* were PENDING tasks, and the number of completed tasks strictly
\* increases on every iteration.
ProcessAllTerminates ==
    /\ <>(l_pc \in {"done", "raised"})
    /\ [](l_iter <= l_pending)
    /\ [][IterationCompletesOne]_vars

====
